---------------------------- MODULE Spec2Model ----------------------------
(***************************************************************************)
(* Per-call voice-turn orchestrator of deepgram-listener.                  *)
(*                                                                         *)
(* The repository holds several variants of the same /listen handler.      *)
(* Three of them are modelled, as specifications over the one set of       *)
(* variables:                                                              *)
(*   SpecAudio    src/unnamed/part_001, caller audio -> AudioBuffer ->     *)
(*                transcription socket (connectToDeepgram, media handler,  *)
(*                cleanup)                                                 *)
(*   SpecConnect  src/unnamed/part_003, connectToDeepgram with retries     *)
(*   SpecSegment  src/unnamed/part_001, the transcript handlers of a call  *)
(*                up to the hand-over to synthesis, and teardown           *)
(*   SpecLimiter  src/unnamed/part_001, the same handlers under the clock  *)
(*                and the admissions of other calls, without teardown      *)
(*   SpecReply    src/unnamed/part_001, the whole pipeline of one final    *)
(*                transcript: generateAIResponse, TTS retry loop, teardown *)
(*   SpecPause    src/unnamed/part_001, the transcript handlers under the  *)
(*                clock, up to the end-of-thought test                     *)
(*   SpecHistory  src/unnamed/part_001 and src/index.js, the message       *)
(*                history of a call under updateContext and add            *)
(*   SpecLegacy   src/unnamed/part_009, the earlier transcript handler     *)
(*   SpecGate     src/unnamed/part_009, the same handler, one final        *)
(*                transcript message at a time                             *)
(*   SpecInterim  src/unnamed/part_009, the same with interim results      *)
(*   SpecConfidence src/unnamed/part_009, the same with results of every   *)
(*                confidence                                               *)
(*   SpecTeardown src/unnamed/part_009, cleanup, health check and          *)
(*                endConversation                                          *)
(*   SpecReconnect src/unnamed/part_003, reconnectDeepgram from the media  *)
(*                handler                                                  *)
(*   SpecRegistry src/unnamed/part_001, /listen connections by call id     *)
(*   SpecKeepAlive src/unnamed/part_001, the keepalive interval of a call  *)
(*   SpecShutdown src/unnamed/part_009, the teardown under SIGTERM         *)
(*   SpecResults  src/unnamed/part_003, the transcripts the sockets of a   *)
(*                call emit                                                *)
(*   SpecMetrics  src/unnamed/part_003, generateAIResponse and the metrics *)
(*   SpecIndex    src/index.js, /listen and its transcription socket       *)
(*   SpecReplyLive, SpecAudioLive: SpecReply and SpecAudio with the timers *)
(*                of the code bound to fire                                *)
(* An action is one run of a handler between two suspension points of the  *)
(* node event loop: the code from a callback's start (or from the          *)
(* resumption of an await) to the next await on an external event.         *)
(***************************************************************************)
EXTENDS Integers, Sequences, FiniteSets, TLC

\* ------------------------------------------------------------------ bounds
MaxFrames == 3      \* caller audio frames per run
MaxSockets == 3     \* transcription sockets created per run (SpecAudio)
MaxAttempts == 4    \* transcription sockets created per run (SpecConnect)
MaxFragments == 2   \* transcript messages delivered per run
MaxOtherCalls == 1  \* admissions asked by other calls per run (SpecLimiter)

\* ------------------------------------------------------- program constants
MAX_RECONNECT_ATTEMPTS == 3
MAX_REQUESTS_PER_WINDOW == 50
RATE_LIMIT_WINDOW == 60000
maxRetries == 3
MAX_CONTEXT_MESSAGES == 10
KEPT_MESSAGES == 9

\* --------------------------------------------------------------- variables
VARIABLES
  \* SpecAudio (part_001 /listen)
  sockets,        \* readyState of every socket made by initializeDeepgramWebSocket
  deepgramWs,     \* the handler's `deepgramWs`: 0 is null, else an index of sockets
  pendingWs,      \* socket whose promise connectToDeepgram awaits, 0 if none
  audioBuffer,    \* the AudioBuffer object: [buffer, isConnecting]
  onMessage,      \* sockets that have the transcript handler attached
  plivoWs,        \* readyState of the caller transport
  listening,      \* the initial `await connectToDeepgram()` returned: handlers attached
  cleanups,       \* number of cleanup() runs
  received,       \* history: frames the media handler was given, in arrival order
  sent,           \* history: <<socket, frame>> for every deepgramWs.send that returned
  drains,         \* history: one record per drain loop that ran to its clear(): the socket,
                  \* the buffer before it, Len(sent) before it, the buffer after it
  \* SpecConnect (part_003 connectToDeepgram(callId, attempt))
  attempts,       \* one record per call of connectToDeepgram: its socket, timers, promise
  \* part_001 and part_009 transcript handler and reply pipeline
  now,              \* Date.now()
  requestTimestamps,\* the process-wide limiter
  contexts,         \* conversationManager.contexts.get(callId): [live, messages, transcriptBuffer]
  metrics,          \* conversationManager.metrics.get(callId): [live, turnCount, responseTimes]
  handlers,         \* one record per run of the deepgramWs 'message' handler
  plivoOut,         \* history: what plivoWs.send was given, in order
  speakListeners,   \* the messageHandler listeners of sendTTSResponse on plivoWs, in order
  endPc,            \* where endConversation stands
  fragments,        \* history: the transcript messages delivered
  appended,         \* history: the texts appended to transcriptBuffer
  turns,            \* history: one record per ended turn
  genCalls,         \* history: Date.now() of every call of the generation service
  otherCalls,       \* history: number of admissions asked by other calls
  \* part_003 reconnectDeepgram
  reconnectAttempt, \* the handler's `reconnectAttempt` counter
  reconnects,       \* the connectToDeepgram calls that reconnectDeepgram awaits
  \* part_009 cleanup and endConversation
  endRuns,          \* one entry per endConversation call: where it stands
  stored,           \* history: number of rows inserted into call_metrics
  healthCheck,      \* the healthCheck interval is set
  \* part_001 session setup
  sessions,         \* one record per /listen connection: its call_uuid and position
  contextMap,       \* conversationManager.contexts and .metrics, by call_uuid
  callsTable,       \* the call_uuid values of the rows of the `calls` table
  \* observation
  arrivals,         \* history: Date.now() at each transcript message (SpecPause)
  updates,          \* history: every message handed to updateContext / add (SpecHistory)
  \* index.js ConversationManager
  ctxMessages,      \* `ctx` of add: contexts.get(callId), the message array of the call
  \* part_001 keepalive, part_009 shutdown
  keepAlive,        \* history of the keepAliveInterval ticks: [ticks, pings, pending, unanswered]
  exited,           \* process.exit was called
  \* part_003 transcript delivery
  results           \* history: one record per transcript message a socket emitted

audioVars == <<sockets, deepgramWs, pendingWs, audioBuffer, onMessage, plivoWs,
               listening, cleanups, received, sent, drains>>

connVars == <<attempts>>

replyVars == <<now, requestTimestamps, contexts, metrics, handlers, plivoOut,
               speakListeners, endPc, fragments, appended, turns, genCalls, otherCalls>>

reconnectVars == <<reconnectAttempt, reconnects>>

teardownVars == <<endRuns, stored, healthCheck>>

registryVars == <<sessions, contextMap, callsTable>>

historyVars == <<arrivals, updates>>

indexVars == <<ctxMessages>>

lifeVars == <<keepAlive, exited>>

resultVars == <<results>>

extraVars == <<historyVars, indexVars, lifeVars, resultVars>>

sideVars == <<reconnectVars, teardownVars, registryVars, extraVars>>

vars == <<audioVars, connVars, replyVars, sideVars>>

\* ------------------------------------------------------------------- text
\* A JavaScript string is the sequence of its characters (one-character strings).
WhiteSpace == {" ", "\t", "\n"}

UpperCase == <<"A", "B", "C", "D", "E", "F", "G", "H", "I", "J", "K", "L", "M",
               "N", "O", "P", "Q", "R", "S", "T", "U", "V", "W", "X", "Y", "Z">>

LowerCase == <<"a", "b", "c", "d", "e", "f", "g", "h", "i", "j", "k", "l", "m",
               "n", "o", "p", "q", "r", "s", "t", "u", "v", "w", "x", "y", "z">>

Digits == {"0", "1", "2", "3", "4", "5", "6", "7", "8", "9"}

Range(f) == {f[i] : i \in DOMAIN f}

\* \w of a regular expression
IsWordChar(c) == c \in Range(UpperCase) \cup Range(LowerCase) \cup Digits \cup {"_"}

\* String.prototype.toLowerCase
toLowerCase(t) ==
  [i \in 1..Len(t) |->
     IF t[i] \in Range(UpperCase)
     THEN LowerCase[CHOOSE k \in 1..Len(UpperCase) : UpperCase[k] = t[i]]
     ELSE t[i]]

\* String.prototype.trim
RECURSIVE trimStart(_)
trimStart(t) == IF t # <<>> /\ Head(t) \in WhiteSpace THEN trimStart(Tail(t)) ELSE t

RECURSIVE trimEnd(_)
trimEnd(t) ==
  IF t # <<>> /\ t[Len(t)] \in WhiteSpace THEN trimEnd(SubSeq(t, 1, Len(t) - 1)) ELSE t

trim(t) == trimEnd(trimStart(t))

\* String.prototype.endsWith
endsWith(t, suffix) ==
  Len(suffix) <= Len(t) /\ SubSeq(t, Len(t) - Len(suffix) + 1, Len(t)) = suffix

\* text.replace(/\s+/g, ' '): every run of white space becomes one blank
RECURSIVE CollapseWhiteSpace(_)
CollapseWhiteSpace(t) ==
  IF t = <<>> THEN <<>>
  ELSE IF Head(t) \in WhiteSpace
  THEN <<" ">> \o CollapseWhiteSpace(trimStart(t))
  ELSE <<Head(t)>> \o CollapseWhiteSpace(Tail(t))

\* text.replace(/(\w)word(\w)?/g, '$1repl$2'): leftmost matches, left to right; a
\* match needs a word character right before `word`
RECURSIVE ReplaceAfterWordChar(_, _, _)
ReplaceAfterWordChar(t, word, repl) ==
  IF t = <<>> THEN <<>>
  ELSE IF /\ IsWordChar(Head(t))
          /\ Len(t) >= 1 + Len(word)
          /\ SubSeq(t, 2, 1 + Len(word)) = word
  THEN LET rest == SubSeq(t, 2 + Len(word), Len(t)) IN
       IF rest # <<>> /\ IsWordChar(Head(rest))
       THEN <<Head(t)>> \o repl \o <<Head(rest)>>
              \o ReplaceAfterWordChar(Tail(rest), word, repl)
       ELSE <<Head(t)>> \o repl \o ReplaceAfterWordChar(rest, word, repl)
  ELSE <<Head(t)>> \o ReplaceAfterWordChar(Tail(t), word, repl)

\* text.split(/\s+/).length: one more than the number of runs of white space
RECURSIVE WhiteSpaceRuns(_)
WhiteSpaceRuns(t) ==
  IF t = <<>> THEN 0
  ELSE IF Head(t) \in WhiteSpace THEN 1 + WhiteSpaceRuns(trimStart(t))
  ELSE WhiteSpaceRuns(Tail(t))

\* the literals of textUtils
Str_gonna ==
  <<"g", "o", "n", "n", "a">>

Str_going_to ==
  <<"g", "o", "i", "n", "g", " ", "t", "o">>

Str_wanna ==
  <<"w", "a", "n", "n", "a">>

Str_want_to ==
  <<"w", "a", "n", "t", " ", "t", "o">>

Str_dunno ==
  <<"d", "u", "n", "n", "o">>

Str_dont_know ==
  <<"d", "o", "n", "'", "t", " ", "k", "n", "o", "w">>

Str_okay ==
  <<"o", "k", "a", "y">>

Str_right ==
  <<"r", "i", "g", "h", "t">>

Str_you_see ==
  <<"y", "o", "u", " ", "s", "e", "e">>

Str_you_know_what_i_mean ==
  <<"y", "o", "u", " ", "k", "n", "o", "w", " ", "w", "h", "a", "t", " ", "i", " ",
    "m", "e", "a", "n">>

Str_thank_you ==
  <<"t", "h", "a", "n", "k", " ", "y", "o", "u">>

\* textUtils (part_001)
endPhrases == {Str_okay, Str_right, Str_you_see, Str_you_know_what_i_mean, Str_thank_you}

END_OF_THOUGHT_PAUSE == 1500

isEndOfThought(text, timeSinceLast) ==
  \/ timeSinceLast > END_OF_THOUGHT_PAUSE
  \/ trim(text) # <<>> /\ trim(text)[Len(trim(text))] \in {".", "!", "?"}
  \/ \E phrase \in endPhrases : endsWith(trim(toLowerCase(text)), phrase)

cleanTranscript(text) ==
  ReplaceAfterWordChar(
    ReplaceAfterWordChar(
      ReplaceAfterWordChar(trim(CollapseWhiteSpace(text)), Str_gonna, Str_going_to),
      Str_wanna, Str_want_to),
    Str_dunno, Str_dont_know)

MIN_WORDS == 2

MIN_LENGTH == 5

hasMinimumQuality_always(text) == TRUE

hasMinimumQuality(text) ==
  WhiteSpaceRuns(text) + 1 >= MIN_WORDS /\ Len(text) >= MIN_LENGTH

\* FALLBACK_RESPONSES and the fixed line of generateAIResponse
Fallback1 ==
  <<"H", "e", "l", "l", "o", ",", " ", "I", " ", "c", "a", "n", " ", "h", "e", "a",
    "r", " ", "y", "o", "u", ".">>

Fallback2 ==
  <<"Y", "e", "s", ",", " ", "I", "'", "m", " ", "l", "i", "s", "t", "e", "n", "i",
    "n", "g", ".">>

Fallback3 ==
  <<"P", "l", "e", "a", "s", "e", " ", "g", "o", " ", "a", "h", "e", "a", "d", ".">>

Fallback4 ==
  <<"I", " ", "u", "n", "d", "e", "r", "s", "t", "a", "n", "d", ".">>

Fallback5 ==
  <<"P", "l", "e", "a", "s", "e", " ", "c", "o", "n", "t", "i", "n", "u", "e", ".">>

Fallback6 ==
  <<"I", "'", "m", " ", "h", "e", "r", "e", " ", "t", "o", " ", "h", "e", "l", "p", ".">>

Fallback7 ==
  <<"T", "e", "l", "l", " ", "m", "e", " ", "m", "o", "r", "e", ".">>

Fallback8 ==
  <<"I", "'", "m", " ", "f", "o", "l", "l", "o", "w", "i", "n", "g", ".">>

FALLBACK_RESPONSES ==
  <<Fallback1, Fallback2, Fallback3, Fallback4, Fallback5, Fallback6, Fallback7, Fallback8>>

TooManyRequestsLine ==
  <<"I", " ", "a", "p", "o", "l", "o", "g", "i", "z", "e", ",", " ", "b", "u", "t",
    " ", "I", "'", "m", " ", "r", "e", "c", "e", "i", "v", "i", "n", "g", " ", "t",
    "o", "o", " ", "m", "a", "n", "y", " ", "r", "e", "q", "u", "e", "s", "t", "s",
    " ", "r", "i", "g", "h", "t", " ", "n", "o", "w", ".", " ", "C", "o", "u", "l",
    "d", " ", "y", "o", "u", " ", "p", "l", "e", "a", "s", "e", " ", "r", "e", "p",
    "e", "a", "t", " ", "t", "h", "a", "t", "?">>

\* transcript fragments and replies the services deliver in this model
Frag_I_need ==
  <<"I", " ", "n", "e", "e", "d">>

Frag_help_please ==
  <<"h", "e", "l", "p", " ", "p", "l", "e", "a", "s", "e", ".">>

Frag_okay ==
  <<"o", "k", "a", "y">>

Reply_sure ==
  <<"S", "u", "r", "e", ".">>

\* ------------------------------------------------------------ AudioBuffer
\* class AudioBuffer
AudioBufferNew == [buffer |-> <<>>, isConnecting |-> FALSE]

add(ab, data) == [ab EXCEPT !.buffer = Append(ab.buffer, data)]

clear(ab) == [ab EXCEPT !.buffer = <<>>]

\* ----------------------------------------------------------------- helpers
IsOpen(ws) == ws # 0 /\ sockets[ws] = "OPEN"

\* a drain loop that starts at the second buffered frame
DrainFrames_skipFirst(buf, k, readyState) ==
  IF readyState = "OPEN" THEN SubSeq(buf, 2, k) ELSE <<>>

\* `for (const data of audioBuffer.data) if (readyState === OPEN) deepgramWs.send(data)`:
\* the frames the loop has sent when it stops after k iterations
DrainFrames(buf, k, readyState) == IF readyState = "OPEN" THEN SubSeq(buf, 1, k) ELSE <<>>

OnSocket(ws, frames) == [i \in 1..Len(frames) |-> <<ws, frames[i]>>]

\* connectToDeepgram up to its await, entered with the AudioBuffer ab: the
\* isConnecting guard, the flag, the socket made by initializeDeepgramWebSocket
ConnectToDeepgram(ab) ==
  IF ab.isConnecting
  THEN /\ audioBuffer' = ab
       /\ UNCHANGED <<sockets, pendingWs>>
  ELSE /\ Len(sockets) < MaxSockets
       /\ sockets' = Append(sockets, "CONNECTING")
       /\ pendingWs' = Len(sockets) + 1
       /\ audioBuffer' = [ab EXCEPT !.isConnecting = TRUE]

\* ------------------------------------------------------------------ actions
\* app.ws('/listen'): `await connectToDeepgram()` before any handler is attached
InitialConnect ==
  /\ UNCHANGED <<connVars, replyVars, sideVars>>
  /\ ~listening /\ Len(sockets) = 0
  /\ ConnectToDeepgram(audioBuffer)
  /\ UNCHANGED <<deepgramWs, onMessage, plivoWs, listening, cleanups, received, sent, drains>>

\* ws.on('open') resolves the promise; connectToDeepgram resumes in the same tick:
\* assigns deepgramWs, drains the buffer, attaches the transcript handler.
\* k < Len(buffer): send number k+1 throws, the catch logs, nothing is cleared.
DeepgramOpen(ws) ==
  /\ UNCHANGED <<connVars, replyVars, sideVars>>
  /\ ws \in 1..Len(sockets) /\ sockets[ws] = "CONNECTING" /\ pendingWs = ws
  /\ sockets' = [sockets EXCEPT ![ws] = "OPEN"]
  /\ deepgramWs' = ws
  /\ \E k \in 0..Len(audioBuffer.buffer) :
       /\ sent' = sent \o OnSocket(ws, DrainFrames(audioBuffer.buffer, k, sockets'[ws]))
       /\ IF k = Len(audioBuffer.buffer)
          THEN /\ audioBuffer' = [clear(audioBuffer) EXCEPT !.isConnecting = FALSE]
               /\ onMessage' = onMessage \cup {ws}
               /\ drains' = Append(drains,
                    [socket |-> ws, buffered |-> audioBuffer.buffer, at |-> Len(sent),
                     left |-> clear(audioBuffer).buffer])
          ELSE /\ audioBuffer' = [audioBuffer EXCEPT !.isConnecting = FALSE]
               /\ onMessage' = onMessage
               /\ drains' = drains
  /\ pendingWs' = 0
  /\ listening' = TRUE
  /\ UNCHANGED <<plivoWs, cleanups, received>>

\* ws.on('error') before the socket opened: the promise rejects, the catch of
\* connectToDeepgram logs, its finally resets the flag
DeepgramError(ws) ==
  /\ UNCHANGED <<connVars, replyVars, sideVars>>
  /\ ws \in 1..Len(sockets) /\ sockets[ws] = "CONNECTING" /\ pendingWs = ws
  /\ sockets' = [sockets EXCEPT ![ws] = "CLOSED"]
  /\ pendingWs' = 0
  /\ audioBuffer' = [audioBuffer EXCEPT !.isConnecting = FALSE]
  /\ listening' = TRUE
  /\ UNCHANGED <<deepgramWs, onMessage, plivoWs, cleanups, received, sent, drains>>

\* the 5 s connectionTimeout on a socket that is not open: ws.close() and reject
ConnectionTimeout(ws) ==
  /\ UNCHANGED <<connVars, replyVars, sideVars>>
  /\ ws \in 1..Len(sockets) /\ sockets[ws] = "CONNECTING" /\ pendingWs = ws
  /\ sockets' = [sockets EXCEPT ![ws] = "CLOSING"]
  /\ pendingWs' = 0
  /\ audioBuffer' = [audioBuffer EXCEPT !.isConnecting = FALSE]
  /\ listening' = TRUE
  /\ UNCHANGED <<deepgramWs, onMessage, plivoWs, cleanups, received, sent, drains>>

\* ws.on('close'): the service or the network ends an open socket (only logged)
DeepgramClose(ws) ==
  /\ UNCHANGED <<connVars, replyVars, sideVars>>
  /\ ws \in 1..Len(sockets) /\ sockets[ws] \in {"OPEN", "CLOSING"}
  /\ sockets' = [sockets EXCEPT ![ws] = "CLOSED"]
  /\ UNCHANGED <<deepgramWs, pendingWs, audioBuffer, onMessage, plivoWs, listening,
                 cleanups, received, sent, drains>>

\* plivoWs.on('message'), event 'media': buffer while the socket is not open,
\* else send; a send that throws buffers the frame and reconnects
PlivoMedia ==
  /\ UNCHANGED <<connVars, replyVars, sideVars>>
  /\ listening /\ plivoWs = "OPEN" /\ Len(received) < MaxFrames
  /\ LET audioData == Len(received) + 1 IN
     /\ received' = Append(received, audioData)
     /\ IF ~IsOpen(deepgramWs)
        THEN /\ ConnectToDeepgram(add(audioBuffer, audioData))
             /\ sent' = sent
        ELSE \/ /\ sent' = Append(sent, <<deepgramWs, audioData>>)
                /\ UNCHANGED <<sockets, pendingWs, audioBuffer>>
             \/ /\ ConnectToDeepgram(add(audioBuffer, audioData))
                /\ sent' = sent
  /\ UNCHANGED <<deepgramWs, onMessage, plivoWs, listening, cleanups, drains>>

\* plivoWs.on('close') -> cleanup(): close the open transcription socket, enter
\* endConversation up to its first await. Before the handlers are attached
\* nothing listens for the close.
PlivoClose ==
  /\ plivoWs = "OPEN"
  /\ plivoWs' = "CLOSED"
  /\ IF listening
     THEN /\ cleanups' = cleanups + 1
          /\ sockets' = IF IsOpen(deepgramWs)
                        THEN [sockets EXCEPT ![deepgramWs] = "CLOSING"]
                        ELSE sockets
          /\ IF metrics.live
             THEN /\ endPc' = "update"
                  /\ UNCHANGED <<contexts, metrics>>
             ELSE /\ endPc' = "done"
                  /\ contexts' = [contexts EXCEPT !.live = FALSE]
                  /\ metrics' = metrics
     ELSE UNCHANGED <<cleanups, sockets, endPc, contexts, metrics>>
  /\ UNCHANGED <<deepgramWs, pendingWs, audioBuffer, onMessage, listening, received, sent,
                 drains, connVars, sideVars, now, requestTimestamps, handlers, plivoOut,
                 speakListeners, fragments, appended, turns, genCalls, otherCalls>>

\* ------------------------------------------- part_003: connect with retries
\* connectToDeepgram(callId, attempt): the record of one call. parent is the call
\* whose retry made this one (0 for the call made by /listen); retries counts the
\* setTimeout(RECONNECT_DELAY) retries scheduled and not yet run; promise is the
\* state of the promise the call returned, value the socket it resolved with.
NewAttempt(attempt, parent) ==
  [attempt |-> attempt, parent |-> parent, readyState |-> "CONNECTING",
   connectionTimeout |-> TRUE, retries |-> 0, promise |-> "pending", value |-> 0]

\* resolve/reject of call i; `.then(resolve).catch(reject)` hands the outcome to
\* the parent's promise. A settled promise ignores further resolve/reject calls.
RECURSIVE Settle(_, _, _, _)
Settle(as, i, outcome, v) ==
  IF as[i].promise # "pending" THEN as
  ELSE LET as2 == [as EXCEPT ![i].promise = outcome, ![i].value = v] IN
       IF as[i].parent = 0 THEN as2 ELSE Settle(as2, as[i].parent, outcome, v)

\* the retry-or-reject of the error handler and of the timeout
RetryOrReject(as, i) ==
  IF as[i].attempt < MAX_RECONNECT_ATTEMPTS
  THEN [as EXCEPT ![i].retries = @ + 1]
  ELSE Settle(as, i, "rejected", 0)

\* the close handler: a retry below the limit, nothing at the limit
RetryOnClose(as, i) ==
  IF as[i].attempt < MAX_RECONNECT_ATTEMPTS
  THEN [as EXCEPT ![i].retries = @ + 1]
  ELSE as

\* cleanup() of part_003
Cleanup3(as) ==
  IF deepgramWs # 0 /\ as[deepgramWs].readyState = "OPEN"
  THEN [as EXCEPT ![deepgramWs].readyState = "CLOSING"]
  ELSE as

\* reconnectDeepgram resumes from `await connectToDeepgram(callId)` when the promise
\* of one of its calls settles
ReconnectResumes(as) ==
  LET settled == {r \in reconnects : attempts[r].promise = "pending" /\ as[r].promise # "pending"} IN
  IF settled = {}
  THEN UNCHANGED <<deepgramWs, listening, plivoWs, reconnectAttempt>>
  ELSE LET r == CHOOSE x \in settled : TRUE IN
       IF as[r].promise = "resolved"
       THEN /\ deepgramWs' = as[r].value
            /\ reconnectAttempt' = 0
            /\ UNCHANGED <<listening, plivoWs>>
       ELSE /\ plivoWs' = IF reconnectAttempt = MAX_RECONNECT_ATTEMPTS /\ plivoWs = "OPEN"
                          THEN "CLOSING" ELSE plivoWs
            /\ UNCHANGED <<deepgramWs, listening, reconnectAttempt>>

\* app.ws('/listen') resumes from `await connectToDeepgram(callId)` when the first
\* call's promise settles: the handlers are attached, or plivoWs.close() and return
ListenResumes(as) ==
  IF attempts[1].promise = "pending" /\ as[1].promise = "resolved"
  THEN /\ deepgramWs' = as[1].value
       /\ listening' = TRUE
       /\ plivoWs' = plivoWs
       /\ reconnectAttempt' = reconnectAttempt
  ELSE IF attempts[1].promise = "pending" /\ as[1].promise = "rejected"
  THEN /\ plivoWs' = IF plivoWs = "OPEN" THEN "CLOSING" ELSE plivoWs
       /\ UNCHANGED <<deepgramWs, listening, reconnectAttempt>>
  ELSE ReconnectResumes(as)

audioOnly == <<sockets, pendingWs, audioBuffer, onMessage, received, sent, drains, replyVars,
               teardownVars, registryVars, extraVars>>

\* app.ws('/listen'): deepgramWs = await connectToDeepgram(callId)
ListenConnect ==
  /\ attempts = <<>>
  /\ attempts' = <<NewAttempt(1, 0)>>
  /\ UNCHANGED <<audioOnly, reconnectVars, deepgramWs, listening, plivoWs, cleanups>>

\* ws.on('open'): clearTimeout, resolve(ws)
AttemptOpen(i) ==
  /\ i \in 1..Len(attempts) /\ attempts[i].readyState = "CONNECTING"
  /\ LET as == Settle([attempts EXCEPT ![i].readyState = "OPEN",
                                       ![i].connectionTimeout = FALSE], i, "resolved", i) IN
     /\ attempts' = as
     /\ ListenResumes(as)
  /\ UNCHANGED <<audioOnly, reconnects, cleanups>>

\* ws.on('error'): the socket failed to connect, was aborted by close(), or broke
\* after it opened; its 'close' event follows
AttemptError(i) ==
  /\ i \in 1..Len(attempts) /\ attempts[i].readyState \in {"CONNECTING", "ABORTING", "OPEN"}
  /\ LET as == RetryOrReject([attempts EXCEPT ![i].readyState = "ERRORED"], i) IN
     /\ attempts' = as
     /\ ListenResumes(as)
  /\ UNCHANGED <<audioOnly, reconnects, cleanups>>

\* ws.on('close') of connectToDeepgram, then deepgramWs.on('close') of /listen
AttemptClose(i) ==
  /\ i \in 1..Len(attempts) /\ attempts[i].readyState \in {"ERRORED", "CLOSING", "OPEN"}
  /\ LET as == RetryOnClose([attempts EXCEPT ![i].readyState = "CLOSED"], i) IN
     IF listening /\ i = attempts[1].value
     THEN /\ attempts' = Cleanup3(as)
          /\ plivoWs' = IF plivoWs = "OPEN" THEN "CLOSING" ELSE plivoWs
          /\ cleanups' = cleanups + 1
     ELSE /\ attempts' = as
          /\ UNCHANGED <<plivoWs, cleanups>>
  /\ UNCHANGED <<audioOnly, reconnectVars, deepgramWs, listening>>

\* the CONNECTION_TIMEOUT timer, cleared only by 'open'
AttemptTimeout(i) ==
  /\ i \in 1..Len(attempts) /\ attempts[i].connectionTimeout
  /\ attempts[i].readyState # "OPEN"
  /\ LET closed == [attempts EXCEPT ![i].connectionTimeout = FALSE,
                      ![i].readyState = IF @ = "CONNECTING" THEN "ABORTING" ELSE @]
         as == RetryOrReject(closed, i) IN
     /\ attempts' = as
     /\ ListenResumes(as)
  /\ UNCHANGED <<audioOnly, reconnects, cleanups>>

\* a setTimeout(RECONNECT_DELAY) retry runs: connectToDeepgram(callId, attempt + 1)
RetryTimer(i) ==
  /\ i \in 1..Len(attempts) /\ attempts[i].retries > 0
  /\ Len(attempts) < MaxAttempts
  /\ attempts' = Append([attempts EXCEPT ![i].retries = @ - 1],
                        NewAttempt(attempts[i].attempt + 1, i))
  /\ UNCHANGED <<audioOnly, reconnectVars, deepgramWs, listening, plivoWs, cleanups>>

\* the caller transport closes; plivoWs.on('close') -> cleanup() once attached
PlivoClosed3 ==
  /\ attempts # <<>> /\ plivoWs \in {"OPEN", "CLOSING"}
  /\ plivoWs' = "CLOSED"
  /\ IF listening
     THEN /\ attempts' = Cleanup3(attempts)
          /\ cleanups' = cleanups + 1
     ELSE UNCHANGED <<attempts, cleanups>>
  /\ UNCHANGED <<audioOnly, reconnectVars, deepgramWs, listening>>

\* reconnectDeepgram up to its await: a new connectToDeepgram(callId) while the
\* counter is below the limit
ReconnectDeepgram ==
  IF reconnectAttempt < MAX_RECONNECT_ATTEMPTS
  THEN /\ Len(attempts) < MaxAttempts
       /\ reconnectAttempt' = reconnectAttempt + 1
       /\ attempts' = Append(attempts, NewAttempt(1, 0))
       /\ reconnects' = reconnects \cup {Len(attempts) + 1}
  ELSE UNCHANGED <<reconnectAttempt, attempts, reconnects>>

\* plivoWs.on('message'), event 'media': send on an open socket; a send that
\* throws and a socket that is not open both call reconnectDeepgram
PlivoMedia3 ==
  /\ listening /\ plivoWs = "OPEN" /\ Len(received) < MaxFrames
  /\ LET audioData == Len(received) + 1 IN
     /\ received' = Append(received, audioData)
     /\ IF deepgramWs # 0 /\ attempts[deepgramWs].readyState = "OPEN"
        THEN \/ /\ sent' = Append(sent, <<deepgramWs, audioData>>)
                /\ UNCHANGED <<reconnectAttempt, attempts, reconnects>>
             \/ /\ ReconnectDeepgram
                /\ sent' = sent
        ELSE /\ ReconnectDeepgram
             /\ sent' = sent
  /\ UNCHANGED <<sockets, pendingWs, audioBuffer, onMessage, drains, replyVars, teardownVars,
                 registryVars, extraVars, deepgramWs, listening, plivoWs, cleanups>>

NextConnect ==
  \/ ListenConnect
  \/ \E i \in 1..MaxAttempts : AttemptOpen(i)
  \/ \E i \in 1..MaxAttempts : AttemptError(i)
  \/ \E i \in 1..MaxAttempts : AttemptClose(i)
  \/ \E i \in 1..MaxAttempts : AttemptTimeout(i)
  \/ \E i \in 1..MaxAttempts : RetryTimer(i)
  \/ PlivoClosed3

\* the call after its initial connect: audio arrives while sockets fail and close
NextReconnect ==
  \/ \E i \in 1..MaxAttempts : AttemptOpen(i)
  \/ \E i \in 1..MaxAttempts : AttemptError(i)
  \/ \E i \in 1..MaxAttempts : AttemptClose(i)
  \/ \E i \in 1..MaxAttempts : AttemptTimeout(i)
  \/ \E i \in 1..MaxAttempts : RetryTimer(i)
  \/ PlivoClosed3
  \/ PlivoMedia3


\* ----------------------------------------- part_001: the reply pipeline
SYSTEM_PROMPT == <<"s", "y", "s", "t", "e", "m">>

\* transcript texts and generated replies delivered by the services
FragmentTexts == {Frag_I_need, Frag_help_please, Frag_okay}

\* values of Date.now() the clock steps through
TimeGrid == {0, 1, RATE_LIMIT_WINDOW, RATE_LIMIT_WINDOW + 1}

\* values of Math.floor(Math.random() * FALLBACK_RESPONSES.length) drawn
RandomIndexes == {1, Len(FALLBACK_RESPONSES)}

\* history: the generation calls made in the window that ends at t
InWindow(calls, t) ==
  Cardinality({i \in DOMAIN calls : calls[i] >= t - RATE_LIMIT_WINDOW /\ calls[i] <= t})

\* an eviction loop that also drops a timestamp exactly one window old
RECURSIVE Evict_inclusive(_, _)
Evict_inclusive(ts, t) ==
  IF Len(ts) > 0 /\ ts[1] <= t - RATE_LIMIT_WINDOW THEN Evict_inclusive(Tail(ts), t) ELSE ts

\* checkRateLimit: the timestamps left after the eviction loop
RECURSIVE Evict(_, _)
Evict(ts, t) ==
  IF Len(ts) > 0 /\ ts[1] < t - RATE_LIMIT_WINDOW THEN Evict(Tail(ts), t) ELSE ts

\* a limiter that counts the request it turns away
checkRateLimit_countsRejected(ts, t) ==
  [admitted |-> Len(Evict(ts, t)) < MAX_REQUESTS_PER_WINDOW,
   timestamps |-> Append(Evict(ts, t), t)]

\* checkRateLimit: its return value and the timestamps it leaves
checkRateLimit(ts, t) ==
  IF Len(Evict(ts, t)) < MAX_REQUESTS_PER_WINDOW
  THEN [admitted |-> TRUE, timestamps |-> Append(Evict(ts, t), t)]
  ELSE [admitted |-> FALSE, timestamps |-> Evict(ts, t)]

\* ConversationManager.updateContext
updateContext_lastTen(ctx, message) ==
  IF ~ctx.live THEN ctx
  ELSE LET pushed == Append(ctx.messages, message) IN
       [ctx EXCEPT !.messages =
          SubSeq(pushed, IF Len(pushed) > MAX_CONTEXT_MESSAGES
                         THEN Len(pushed) - MAX_CONTEXT_MESSAGES + 1 ELSE 1, Len(pushed))]

updateContext(ctx, message) ==
  IF ~ctx.live THEN ctx
  ELSE LET pushed == Append(ctx.messages, message) IN
       IF Len(pushed) > MAX_CONTEXT_MESSAGES
       THEN [ctx EXCEPT !.messages =
               <<pushed[1]>> \o SubSeq(pushed, Len(pushed) - KEPT_MESSAGES + 1, Len(pushed))]
       ELSE [ctx EXCEPT !.messages = pushed]

\* Array.prototype.splice(start, deleteCount) with a 0-based start
splice(array, start, deleteCount) ==
  SubSeq(array, 1, start) \o SubSeq(array, start + deleteCount + 1, Len(array))

\* index.js ConversationManager.add: push, then splice(1, length - 10)
contextAdd(messages, role, content) ==
  LET pushed == Append(messages, [role |-> role, content |-> content]) IN
  IF Len(pushed) > MAX_CONTEXT_MESSAGES
  THEN splice(pushed, 1, Len(pushed) - MAX_CONTEXT_MESSAGES)
  ELSE pushed

\* ConversationManager.updateMetrics(callId, 'response_time', duration)
updateMetrics(m, duration) ==
  IF ~m.live THEN m
  ELSE [m EXCEPT !.responseTimes = Append(@, duration), !.turnCount = @ + 1]

\* sendTTSResponse: text.replace(/[<>]/g, "").trim()
cleanText(text) == trim(SelectSeq(text, LAMBDA c : c \notin {"<", ">"}))

\* an ended turn that leaves transcriptBuffer as it is
clearTranscriptBuffer_kept(ctx) == ctx

\* `context.transcriptBuffer = ''`
clearTranscriptBuffer(ctx) == [ctx EXCEPT !.transcriptBuffer = <<>>]

NewHandler(text) ==
  [pc |-> "saveUser", text |-> text, utterance |-> <<>>, aiResponse |-> <<>>,
   fallbackResponse |-> <<>>, startTime |-> 0, retryCount |-> 0, target |-> "none",
   \* history: the targets of its sendTTSResponse calls; whether it asked the
   \* limiter, how many generation calls the last window held then, whether it
   \* called the generation service and how that ended
   tts |-> <<>>, asked |-> FALSE, inWindow |-> 0, fetched |-> FALSE, fetch |-> "none"]

\* The part of the state the TTS steps of one handler touch
TtsState == [handlers |-> handlers, plivoOut |-> plivoOut, speakListeners |-> speakListeners]

Without(seq, x) == SelectSeq(seq, LAMBDA y : y # x)

\* sendTTSResponse(plivoWs, text), called for `target` (the reply, the fallback of
\* the retry loop, the fallback of the outer catch), and what follows a rejection.
\* rnd is the index Math.random yields for a fallback line drawn in this step.
RECURSIVE sendTTSResponse(_, _, _, _, _)
RECURSIVE TtsRejected(_, _, _, _)
sendTTSResponse(st, h, text, target, rnd) ==
  LET called == [st EXCEPT !.handlers[h].tts = Append(@, target),
                           !.handlers[h].target = target] IN
  IF plivoWs # "OPEN"
  THEN TtsRejected(called, h, target, rnd)
  ELSE [called EXCEPT
          !.plivoOut = Append(@, [handler |-> h, event |-> "speak",
                                   payload |-> cleanText(text)]),
          !.speakListeners = Append(@, h),
          !.handlers[h].pc = "ttsWait"]

\* the catch blocks around sendTTSResponse
TtsRejected(st, h, target, rnd) ==
  IF target = "reply"
  THEN LET counted == [st EXCEPT !.handlers[h].retryCount = @ + 1] IN
       IF counted.handlers[h].retryCount = maxRetries
       THEN sendTTSResponse(counted, h, FALLBACK_RESPONSES[rnd], "fallback", rnd)
       ELSE [counted EXCEPT !.handlers[h].pc = "backoff"]
  ELSE IF target = "fallback"
  THEN [st EXCEPT !.handlers[h].pc = "saveFallback",
                  !.handlers[h].fallbackResponse = FALLBACK_RESPONSES[rnd]]
  ELSE [st EXCEPT !.handlers[h].pc = "done"]

\* sendTTSResponse resolved: `break`, or the loop ends with retryCount = maxRetries
TtsResolved(st, h) == [st EXCEPT !.handlers[h].pc = "done"]

\* an event of plivoWs reaches every messageHandler in turn; each removes itself
RECURSIVE SettleListeners(_, _, _, _)
SettleListeners(st, listeners, resolved, rnd) ==
  IF listeners = <<>> THEN st
  ELSE LET h == Head(listeners)
           st1 == IF resolved THEN TtsResolved(st, h)
                  ELSE TtsRejected(st, h, st.handlers[h].target, rnd) IN
       SettleListeners(st1, Tail(listeners), resolved, rnd)

SetTts(st) ==
  /\ handlers' = st.handlers
  /\ plivoOut' = st.plivoOut
  /\ speakListeners' = st.speakListeners

audioAll == <<audioVars, connVars, sideVars>>

\* the clock
Tick(t) ==
  /\ t \in TimeGrid /\ t > now
  /\ now' = t
  /\ UNCHANGED <<audioAll, requestTimestamps, contexts, metrics, handlers, plivoOut,
                 speakListeners, endPc, fragments, appended, turns, genCalls, otherCalls>>

\* generateAIResponse of another call: its checkRateLimit and, if admitted, its fetch
OtherCallGenerate ==
  /\ otherCalls < MaxOtherCalls
  /\ otherCalls' = otherCalls + 1
  /\ LET r == checkRateLimit(requestTimestamps, now) IN
     /\ requestTimestamps' = r.timestamps
     /\ genCalls' = IF r.admitted THEN Append(genCalls, now) ELSE genCalls
  /\ UNCHANGED <<audioAll, now, contexts, metrics, handlers, plivoOut, speakListeners,
                 endPc, fragments, appended, turns>>

\* deepgramWs.on('message'): a Results message with a non-empty transcript. Only a
\* final one is handled, up to `await transcriptManager.saveTranscript(...)`
DeepgramMessage(text, is_final) ==
  /\ deepgramWs \in onMessage /\ sockets[deepgramWs] \in {"OPEN", "CLOSING"}
  /\ Len(fragments) < MaxFragments
  /\ fragments' = Append(fragments, [text |-> text, is_final |-> is_final])
  /\ handlers' = IF is_final THEN Append(handlers, NewHandler(text)) ELSE handlers
  /\ UNCHANGED <<audioVars, connVars, reconnectVars, teardownVars, registryVars, now,
                 requestTimestamps, contexts, metrics, plivoOut, speakListeners, endPc,
                 appended, turns, genCalls, otherCalls>>

\* the handler resumes after saveTranscript: accumulate, end the turn, and enter
\* generateAIResponse up to its fetch
SaveUserDone(h) ==
  /\ h \in 1..Len(handlers) /\ handlers[h].pc = "saveUser"
  /\ IF ~contexts.live
     THEN /\ handlers' = [handlers EXCEPT ![h].pc = "done"]
          /\ UNCHANGED <<contexts, appended, turns, requestTimestamps, genCalls>>
     ELSE LET transcriptText == handlers[h].text
              buffer == contexts.transcriptBuffer \o <<" ">> \o transcriptText IN
          /\ appended' = Append(appended, transcriptText)
          /\ IF ~isEndOfThought(transcriptText, 1000)
             THEN /\ contexts' = [contexts EXCEPT !.transcriptBuffer = buffer]
                  /\ handlers' = [handlers EXCEPT ![h].pc = "done"]
                  /\ UNCHANGED <<turns, requestTimestamps, genCalls>>
             ELSE LET fullUtterance == cleanTranscript(buffer)
                      cleared == clearTranscriptBuffer(contexts)
                      limit == checkRateLimit(requestTimestamps, now) IN
                  /\ turns' = Append(turns, [handler |-> h, raw |-> buffer,
                                             utterance |-> fullUtterance])
                  /\ IF ~hasMinimumQuality(fullUtterance)
                     THEN /\ contexts' = cleared
                          /\ handlers' = [handlers EXCEPT ![h].pc = "done",
                                                          ![h].utterance = fullUtterance]
                          /\ UNCHANGED <<requestTimestamps, genCalls>>
                     ELSE /\ requestTimestamps' = limit.timestamps
                          /\ IF ~limit.admitted
                             THEN /\ contexts' = cleared
                                  /\ handlers' = [handlers EXCEPT
                                       ![h].pc = "saveAgent",
                                       ![h].utterance = fullUtterance,
                                       ![h].startTime = now,
                                       ![h].aiResponse = TooManyRequestsLine,
                                       ![h].asked = TRUE,
                                       ![h].inWindow = InWindow(genCalls, now)]
                                  /\ genCalls' = genCalls
                             ELSE /\ contexts' = updateContext(cleared,
                                       [role |-> "user", content |-> fullUtterance])
                                  /\ handlers' = [handlers EXCEPT
                                       ![h].pc = "fetch",
                                       ![h].utterance = fullUtterance,
                                       ![h].startTime = now,
                                       ![h].asked = TRUE,
                                       ![h].inWindow = InWindow(genCalls, now),
                                       ![h].fetched = TRUE]
                                  /\ genCalls' = Append(genCalls, now)
  /\ UNCHANGED <<audioAll, now, metrics, plivoOut, speakListeners, endPc, fragments,
                 otherCalls>>

\* the fetch of generateAIResponse settles. "ok": a reply; "noContent": a body
\* without choices[0].message.content; "fail": fetch throws, a non-ok status, a
\* body that is not the expected JSON
FetchDone(h, outcome, r) ==
  /\ h \in 1..Len(handlers) /\ handlers[h].pc = "fetch"
  /\ IF outcome = "fail"
     THEN /\ handlers' = [handlers EXCEPT ![h].pc = "saveAgent", ![h].fetch = outcome,
                                          ![h].aiResponse = FALLBACK_RESPONSES[r]]
          /\ UNCHANGED <<metrics, contexts>>
     ELSE LET aiResponse == IF outcome = "ok" THEN Reply_sure ELSE FALLBACK_RESPONSES[1] IN
          /\ metrics' = updateMetrics(metrics, now - handlers[h].startTime)
          /\ contexts' = updateContext(contexts, [role |-> "assistant", content |-> aiResponse])
          /\ handlers' = [handlers EXCEPT ![h].pc = "storeTurn", ![h].fetch = outcome,
                                          ![h].aiResponse = aiResponse]
  /\ UNCHANGED <<audioAll, now, requestTimestamps, plivoOut, speakListeners, endPc,
                 fragments, appended, turns, genCalls, otherCalls>>

\* `await supabase.from('conversation_turns').insert(...)` settles (a failure is
\* logged); generateAIResponse returns
StoreTurnDone(h) ==
  /\ h \in 1..Len(handlers) /\ handlers[h].pc = "storeTurn"
  /\ handlers' = [handlers EXCEPT ![h].pc = "saveAgent"]
  /\ UNCHANGED <<audioAll, now, requestTimestamps, contexts, metrics, plivoOut,
                 speakListeners, endPc, fragments, appended, turns, genCalls, otherCalls>>

\* the save of the agent's transcript settles: the retry loop starts
SaveAgentDone(h, rnd) ==
  /\ h \in 1..Len(handlers) /\ handlers[h].pc = "saveAgent"
  /\ SetTts(sendTTSResponse(TtsState, h, handlers[h].aiResponse, "reply", rnd))
  /\ UNCHANGED <<audioAll, now, requestTimestamps, contexts, metrics, endPc,
                 fragments, appended, turns, genCalls, otherCalls>>

\* `await new Promise(resolve => setTimeout(resolve, 1000))` ends: the next attempt
BackoffDone(h, rnd) ==
  /\ h \in 1..Len(handlers) /\ handlers[h].pc = "backoff"
  /\ SetTts(sendTTSResponse(TtsState, h, handlers[h].aiResponse, "reply", rnd))
  /\ UNCHANGED <<audioAll, now, requestTimestamps, contexts, metrics, endPc,
                 fragments, appended, turns, genCalls, otherCalls>>

\* the save of the outer catch settles: its fallback is sent inside try/catch
SaveFallbackDone(h, rnd) ==
  /\ h \in 1..Len(handlers) /\ handlers[h].pc = "saveFallback"
  /\ SetTts(sendTTSResponse(TtsState, h, handlers[h].fallbackResponse, "fallback2", rnd))
  /\ UNCHANGED <<audioAll, now, requestTimestamps, contexts, metrics, endPc,
                 fragments, appended, turns, genCalls, otherCalls>>

\* plivoWs delivers 'speak_completed': every pending sendTTSResponse resolves
PlivoSpeakCompleted ==
  /\ plivoWs = "OPEN" /\ speakListeners # <<>>
  /\ SetTts(SettleListeners([TtsState EXCEPT !.speakListeners = <<>>],
                            speakListeners, TRUE, 1))
  /\ UNCHANGED <<audioAll, now, requestTimestamps, contexts, metrics, endPc,
                 fragments, appended, turns, genCalls, otherCalls>>

\* plivoWs delivers 'error' or 'incorrectPayload': every pending one rejects
PlivoSpeakError(rnd) ==
  /\ plivoWs = "OPEN" /\ speakListeners # <<>>
  /\ SetTts(SettleListeners([TtsState EXCEPT !.speakListeners = <<>>],
                            speakListeners, FALSE, rnd))
  /\ UNCHANGED <<audioAll, now, requestTimestamps, contexts, metrics, endPc,
                 fragments, appended, turns, genCalls, otherCalls>>

\* the 5 s timeout of one sendTTSResponse: its listener is removed, it rejects
TtsTimeout(h, rnd) ==
  /\ h \in 1..Len(handlers) /\ handlers[h].pc = "ttsWait"
  /\ SetTts(TtsRejected([TtsState EXCEPT !.speakListeners = Without(@, h)],
                        h, handlers[h].target, rnd))
  /\ UNCHANGED <<audioAll, now, requestTimestamps, contexts, metrics, endPc,
                 fragments, appended, turns, genCalls, otherCalls>>

\* ConversationManager.endConversation: its two awaited store writes, then the
\* deletes; a write that throws is caught and nothing is deleted
EndConversationStep(ok) ==
  /\ endPc \in {"update", "insert"}
  /\ IF ~ok
     THEN /\ endPc' = "failed"
          /\ UNCHANGED <<contexts, metrics>>
     ELSE IF endPc = "update"
     THEN /\ endPc' = "insert"
          /\ UNCHANGED <<contexts, metrics>>
     ELSE /\ endPc' = "done"
          /\ contexts' = [contexts EXCEPT !.live = FALSE]
          /\ metrics' = [metrics EXCEPT !.live = FALSE]
  /\ UNCHANGED <<audioAll, now, requestTimestamps, handlers, plivoOut, speakListeners,
                 fragments, appended, turns, genCalls, otherCalls>>

\* ------------------------------------------ part_009: the earlier /listen
Filler_uh ==
  <<"u", "h">>

Filler_umm ==
  <<"u", "m", "m">>

Filler_hmm ==
  <<"h", "m", "m">>

Filler_ah ==
  <<"a", "h">>

Filler_eh ==
  <<"e", "h">>

Filler_like ==
  <<"l", "i", "k", "e">>

Filler_you_know ==
  <<"y", "o", "u", " ", "k", "n", "o", "w">>

Filler_well ==
  <<"w", "e", "l", "l">>

Filler_so ==
  <<"s", "o">>

Filler_basically ==
  <<"b", "a", "s", "i", "c", "a", "l", "l", "y">>

Filler_actually ==
  <<"a", "c", "t", "u", "a", "l", "l", "y">>

Filler_literally ==
  <<"l", "i", "t", "e", "r", "a", "l", "l", "y">>

fillerWords ==
  {Filler_uh, Filler_umm, Filler_hmm, Filler_ah, Filler_eh, Filler_like,
   Filler_you_know, Filler_well, Filler_so, Filler_basically, Filler_actually, Filler_literally}

\* textUtils.isFiller
isFiller_never(text) == FALSE

isFiller(text) == trim(toLowerCase(text)) \in fillerWords

Frag_So ==
  <<"S", "o", " ">>

\* confidences of a transcript alternative, in hundredths
ConfidenceGrid == {50, 69, 70, 99}

HighConfidence == CHOOSE c \in ConfidenceGrid : \A d \in ConfidenceGrid : d <= c

\* transcript texts delivered to the earlier handler
LegacyTexts == {Frag_I_need, Frag_help_please, Frag_So, Frag_okay}

\* the handler of one transcript message. completion: how its
\* openai.chat.completions.create call ended; spoken: whether it sent a speak event
NewLegacyHandler(pc, utterance) ==
  [pc |-> pc, utterance |-> utterance, aiResponse |-> <<>>, completion |-> "none",
   spoken |-> FALSE]

\* the Speak XML of `ttsResponse`: its voice, its prosody and the text it wraps
SpeakXml(aiResponse) ==
  [voice |-> "Polly.Joanna", rate |-> 95, pitch |-> 0, text |-> aiResponse]

\* ConversationManager.updateMetrics(callId, 'user_speaking' | 'ai_response', duration)
updateMetricsLegacy(m, type, duration) ==
  IF ~m.live THEN m
  ELSE IF type = "user_speaking" THEN [m EXCEPT !.userSpeakingTime = @ + duration]
  ELSE IF type = "ai_response" THEN [m EXCEPT !.aiResponseTime = @ + duration]
  ELSE updateMetrics(m, duration)

legacyUnchanged ==
  <<audioAll, requestTimestamps, speakListeners, endPc, genCalls, otherCalls>>

\* deepgramWs.on('message') with a non-empty transcript: accumulate, end the turn,
\* and enter generateAIResponse up to its completion call; otherwise go on to the
\* insert into `transcripts`. The handler never reads parsed.is_final; the
\* confidence of the alternative (in hundredths) is logged and stored, nothing more.
LegacyMessage(spokenText, is_final, confidence) ==
  /\ sockets[deepgramWs] = "OPEN" /\ contexts.live
  /\ Len(fragments) < MaxFragments
  /\ fragments' = Append(fragments, [text |-> spokenText, is_final |-> is_final,
                                     confidence |-> confidence,
                                     sinceLast |-> now - contexts.lastProcessedTime])
  /\ LET timeSinceLast == now - contexts.lastProcessedTime
         stamped == [contexts EXCEPT !.lastProcessedTime = now]
         buffer == contexts.transcriptBuffer \o <<" ">> \o spokenText
         fullUtterance == cleanTranscript(buffer)
         cleared == [stamped EXCEPT !.transcriptBuffer = <<>>] IN
     /\ metrics' = updateMetricsLegacy(metrics, "user_speaking", timeSinceLast)
     /\ IF isFiller(spokenText)
        THEN /\ contexts' = stamped
             /\ handlers' = Append(handlers, NewLegacyHandler("storeTranscript", <<>>))
             /\ UNCHANGED <<appended, turns>>
        ELSE /\ appended' = Append(appended, spokenText)
             /\ IF ~isEndOfThought(spokenText, timeSinceLast)
                THEN /\ contexts' = [stamped EXCEPT !.transcriptBuffer = buffer]
                     /\ handlers' = Append(handlers, NewLegacyHandler("storeTranscript", <<>>))
                     /\ turns' = turns
                ELSE /\ turns' = Append(turns, [handler |-> Len(handlers) + 1, raw |-> buffer,
                                                utterance |-> fullUtterance])
                     /\ IF ~hasMinimumQuality(fullUtterance)
                        THEN /\ contexts' = cleared
                             /\ handlers' = Append(handlers,
                                  NewLegacyHandler("storeTranscript", fullUtterance))
                        ELSE /\ contexts' = updateContext(cleared,
                                  [role |-> "user", content |-> fullUtterance])
                             /\ handlers' = Append(handlers,
                                  NewLegacyHandler("completion", fullUtterance))
  /\ UNCHANGED <<legacyUnchanged, now, plivoOut>>

\* openai.chat.completions.create settles. "ok": a reply; "fail": it throws
\* (timeout, non-success status, quota or auth error), generateAIResponse returns
\* null and the handler logs "No AI response generated"
LegacyCompletionDone(h, outcome) ==
  /\ h \in 1..Len(handlers) /\ handlers[h].pc = "completion"
  /\ IF outcome = "fail"
     THEN /\ handlers' = [handlers EXCEPT ![h].pc = "storeTranscript",
                                          ![h].completion = outcome]
          /\ UNCHANGED <<metrics, contexts>>
     ELSE /\ metrics' = updateMetricsLegacy(metrics, "response_time", 0)
          /\ contexts' = updateContext(contexts, [role |-> "assistant", content |-> Reply_sure])
          /\ handlers' = [handlers EXCEPT ![h].pc = "storeTurn", ![h].completion = outcome,
                                          ![h].aiResponse = Reply_sure]
  /\ UNCHANGED <<legacyUnchanged, now, plivoOut, fragments, appended, turns>>

\* the insert into `conversation_turns` settles: generateAIResponse returns the
\* reply, or null if the insert threw; a reply is sent in a speak event
LegacyStoreTurnDone(h, ok) ==
  /\ h \in 1..Len(handlers) /\ handlers[h].pc = "storeTurn"
  /\ IF ok /\ plivoWs = "OPEN"
     THEN /\ plivoOut' = Append(plivoOut, [handler |-> h, event |-> "speak",
                                           payload |-> SpeakXml(handlers[h].aiResponse)])
          /\ metrics' = updateMetricsLegacy(metrics, "ai_response", 0)
          /\ handlers' = [handlers EXCEPT ![h].pc = "storeTranscript", ![h].spoken = TRUE]
     ELSE /\ handlers' = [handlers EXCEPT ![h].pc = "storeTranscript"]
          /\ UNCHANGED <<plivoOut, metrics>>
  /\ UNCHANGED <<legacyUnchanged, now, contexts, fragments, appended, turns>>

\* the insert into `transcripts` settles; a failure is logged
LegacyStoreTranscriptDone(h) ==
  /\ h \in 1..Len(handlers) /\ handlers[h].pc = "storeTranscript"
  /\ handlers' = [handlers EXCEPT ![h].pc = "done"]
  /\ UNCHANGED <<legacyUnchanged, now, contexts, metrics, plivoOut, fragments, appended,
                 turns>>

\* nothing of the other variants has run
\* no tick of the keepalive interval yet
KeepAliveNew == [ticks |-> 0, pings |-> 0, pending |-> 0, unanswered |-> 0]

InitSide ==
  /\ reconnectAttempt = 0
  /\ reconnects = {}
  /\ endRuns = <<>>
  /\ stored = 0
  /\ healthCheck = FALSE
  /\ sessions = <<>>
  /\ contextMap = {}
  /\ callsTable = {}
  /\ arrivals = <<>>
  /\ updates = <<>>
  /\ ctxMessages = <<[role |-> "system", content |-> SYSTEM_PROMPT]>>
  /\ keepAlive = KeepAliveNew
  /\ exited = FALSE
  /\ results = <<>>

InitPipeline ==
  /\ now = 0
  /\ contexts = [live |-> TRUE, transcriptBuffer |-> <<>>,
                 messages |-> <<[role |-> "system", content |-> SYSTEM_PROMPT]>>]
  /\ metrics = [live |-> TRUE, turnCount |-> 0, responseTimes |-> <<>>]
  /\ handlers = <<>>
  /\ plivoOut = <<>>
  /\ speakListeners = <<>>
  /\ endPc = "idle"
  /\ fragments = <<>>
  /\ appended = <<>>
  /\ turns = <<>>
  /\ genCalls = requestTimestamps
  /\ otherCalls = 0

\* a call that has just been accepted: initializeContext is done
InitAudio ==
  /\ sockets = <<>>
  /\ deepgramWs = 0
  /\ pendingWs = 0
  /\ audioBuffer = AudioBufferNew
  /\ onMessage = {}
  /\ plivoWs = "OPEN"
  /\ listening = FALSE
  /\ cleanups = 0
  /\ received = <<>>
  /\ sent = <<>>
  /\ drains = <<>>
  /\ attempts = <<>>
  /\ InitSide
  /\ requestTimestamps = <<>>
  /\ InitPipeline

\* a call whose first connectToDeepgram succeeded
InitReply ==
  /\ sockets = <<"OPEN">>
  /\ deepgramWs = 1
  /\ pendingWs = 0
  /\ audioBuffer = AudioBufferNew
  /\ onMessage = {1}
  /\ plivoWs = "OPEN"
  /\ listening = TRUE
  /\ cleanups = 0
  /\ received = <<>>
  /\ sent = <<>>
  /\ drains = <<>>
  /\ attempts = <<>>
  /\ InitSide
  /\ requestTimestamps = <<>>
  /\ InitPipeline

\* the same call while other calls have used all but one admission of the window
InitLimiter ==
  /\ sockets = <<"OPEN">>
  /\ deepgramWs = 1
  /\ pendingWs = 0
  /\ audioBuffer = AudioBufferNew
  /\ onMessage = {1}
  /\ plivoWs = "OPEN"
  /\ listening = TRUE
  /\ cleanups = 0
  /\ received = <<>>
  /\ sent = <<>>
  /\ drains = <<>>
  /\ attempts = <<>>
  /\ InitSide
  /\ requestTimestamps = [i \in 1..(MAX_REQUESTS_PER_WINDOW - 1) |-> 0]
  /\ InitPipeline

\* the earlier /listen: its transcription socket has opened
InitLegacy ==
  /\ sockets = <<"OPEN">>
  /\ deepgramWs = 1
  /\ pendingWs = 0
  /\ audioBuffer = AudioBufferNew
  /\ onMessage = {1}
  /\ plivoWs = "OPEN"
  /\ listening = TRUE
  /\ cleanups = 0
  /\ received = <<>>
  /\ sent = <<>>
  /\ drains = <<>>
  /\ attempts = <<>>
  /\ InitSide
  /\ requestTimestamps = <<>>
  /\ now = 0
  /\ contexts = [live |-> TRUE, transcriptBuffer |-> <<>>, lastProcessedTime |-> 0,
                 messages |-> <<[role |-> "system", content |-> SYSTEM_PROMPT]>>]
  /\ metrics = [live |-> TRUE, turnCount |-> 0, responseTimes |-> <<>>,
                userSpeakingTime |-> 0, aiResponseTime |-> 0]
  /\ handlers = <<>>
  /\ plivoOut = <<>>
  /\ speakListeners = <<>>
  /\ endPc = "idle"
  /\ fragments = <<>>
  /\ appended = <<>>
  /\ turns = <<>>
  /\ genCalls = <<>>
  /\ otherCalls = 0

\* part_003 /listen after `deepgramWs = await connectToDeepgram(callId)` resolved
\* with the first socket: the handlers are attached
InitReconnect ==
  /\ sockets = <<>>
  /\ deepgramWs = 1
  /\ pendingWs = 0
  /\ audioBuffer = AudioBufferNew
  /\ onMessage = {}
  /\ plivoWs = "OPEN"
  /\ listening = TRUE
  /\ cleanups = 0
  /\ received = <<>>
  /\ sent = <<>>
  /\ drains = <<>>
  /\ attempts = <<[NewAttempt(1, 0) EXCEPT !.readyState = "OPEN", !.connectionTimeout = FALSE,
                                            !.promise = "resolved", !.value = 1]>>
  /\ InitSide
  /\ requestTimestamps = <<>>
  /\ InitPipeline

NextAudio ==
  \/ InitialConnect
  \/ \E ws \in 1..MaxSockets : DeepgramOpen(ws)
  \/ \E ws \in 1..MaxSockets : DeepgramError(ws)
  \/ \E ws \in 1..MaxSockets : ConnectionTimeout(ws)
  \/ \E ws \in 1..MaxSockets : DeepgramClose(ws)
  \/ PlivoMedia
  \/ PlivoClose
  \/ \E ok \in BOOLEAN : EndConversationStep(ok)

\* the transcript handlers of a call up to the hand-over to synthesis, and teardown
NextSegment ==
  \/ \E text \in FragmentTexts, is_final \in BOOLEAN :
       DeepgramMessage(text, is_final) /\ UNCHANGED extraVars
  \/ \E h \in 1..MaxFragments : SaveUserDone(h)
  \/ \E h \in 1..MaxFragments, outcome \in {"ok", "noContent", "fail"}, r \in RandomIndexes :
       FetchDone(h, outcome, r)
  \/ \E h \in 1..MaxFragments : StoreTurnDone(h)
  \/ PlivoClose
  \/ \E ok \in BOOLEAN : EndConversationStep(ok)

\* the limiter under the clock and the admissions of other calls, up to the
\* hand-over to synthesis; every transcript ends a turn
NextLimiter ==
  \/ \E t \in TimeGrid : Tick(t)
  \/ OtherCallGenerate
  \/ DeepgramMessage(Frag_help_please, TRUE) /\ UNCHANGED extraVars
  \/ \E h \in 1..MaxFragments : SaveUserDone(h)
  \/ \E h \in 1..MaxFragments, outcome \in {"ok", "fail"}, r \in RandomIndexes :
       FetchDone(h, outcome, r)
  \/ \E h \in 1..MaxFragments : StoreTurnDone(h)

\* the whole pipeline of the first final transcript of a call
NextReply ==
  \/ \E text \in FragmentTexts, is_final \in BOOLEAN :
       handlers = <<>> /\ DeepgramMessage(text, is_final) /\ UNCHANGED extraVars
  \/ \E h \in 1..MaxFragments : SaveUserDone(h)
  \/ \E h \in 1..MaxFragments, outcome \in {"ok", "noContent", "fail"}, r \in RandomIndexes :
       FetchDone(h, outcome, r)
  \/ \E h \in 1..MaxFragments : StoreTurnDone(h)
  \/ \E h \in 1..MaxFragments, rnd \in RandomIndexes : SaveAgentDone(h, rnd)
  \/ \E h \in 1..MaxFragments, rnd \in RandomIndexes : BackoffDone(h, rnd)
  \/ \E h \in 1..MaxFragments, rnd \in RandomIndexes : SaveFallbackDone(h, rnd)
  \/ PlivoSpeakCompleted
  \/ \E rnd \in RandomIndexes : PlivoSpeakError(rnd)
  \/ \E h \in 1..MaxFragments, rnd \in RandomIndexes : TtsTimeout(h, rnd)
  \/ PlivoClose
  \/ \E ok \in BOOLEAN : EndConversationStep(ok)

SpecAudio == InitAudio /\ [][NextAudio]_vars

SpecConnect == InitAudio /\ [][NextConnect]_vars

NextLegacy ==
  \/ \E t \in TimeGrid : Tick(t)
  \/ \E spokenText \in LegacyTexts : LegacyMessage(spokenText, TRUE, HighConfidence)
  \/ \E h \in 1..MaxFragments, outcome \in {"ok", "fail"} : LegacyCompletionDone(h, outcome)
  \/ \E h \in 1..MaxFragments, ok \in BOOLEAN : LegacyStoreTurnDone(h, ok)
  \/ \E h \in 1..MaxFragments : LegacyStoreTranscriptDone(h)

SpecReconnect == InitReconnect /\ [][NextReconnect]_vars

SpecLegacy == InitLegacy /\ [][NextLegacy]_vars

\* the clock of the earlier handler, at the two sides of the pause threshold
PauseGrid == {0, END_OF_THOUGHT_PAUSE, END_OF_THOUGHT_PAUSE + 1}

LegacyTick(t) ==
  /\ t \in PauseGrid /\ t > now
  /\ now' = t
  /\ UNCHANGED <<audioAll, requestTimestamps, contexts, metrics, handlers, plivoOut,
                 speakListeners, endPc, fragments, appended, turns, genCalls, otherCalls>>

\* a transcript message is delivered when the handlers of the earlier ones have
\* returned
LegacyIdle == \A h \in 1..Len(handlers) : handlers[h].pc = "done"

\* the earlier handler, one final transcript message at a time. Appending, ending
\* the turn and clearing happen before the handler's first await, so they do not
\* depend on how the awaits of different handlers interleave.
NextGate ==
  \/ \E t \in PauseGrid : LegacyTick(t)
  \/ \E spokenText \in LegacyTexts : LegacyIdle /\ LegacyMessage(spokenText, TRUE, HighConfidence)
  \/ \E h \in 1..MaxFragments, outcome \in {"ok", "fail"} : LegacyCompletionDone(h, outcome)
  \/ \E h \in 1..MaxFragments, ok \in BOOLEAN : LegacyStoreTurnDone(h, ok)
  \/ \E h \in 1..MaxFragments : LegacyStoreTranscriptDone(h)

SpecGate == InitLegacy /\ [][NextGate]_vars

\* the same, with interim (is_final = false) results among the messages
NextInterim ==
  \/ \E t \in PauseGrid : LegacyTick(t)
  \/ \E spokenText \in LegacyTexts, is_final \in BOOLEAN :
       LegacyIdle /\ LegacyMessage(spokenText, is_final, HighConfidence)
  \/ \E h \in 1..MaxFragments, outcome \in {"ok", "fail"} : LegacyCompletionDone(h, outcome)
  \/ \E h \in 1..MaxFragments, ok \in BOOLEAN : LegacyStoreTurnDone(h, ok)
  \/ \E h \in 1..MaxFragments : LegacyStoreTranscriptDone(h)

SpecInterim == InitLegacy /\ [][NextInterim]_vars

\* the same, with final results of every confidence
NextConfidence ==
  \/ \E spokenText \in LegacyTexts, confidence \in ConfidenceGrid :
       LegacyIdle /\ LegacyMessage(spokenText, TRUE, confidence)
  \/ \E h \in 1..MaxFragments, outcome \in {"ok", "fail"} : LegacyCompletionDone(h, outcome)
  \/ \E h \in 1..MaxFragments, ok \in BOOLEAN : LegacyStoreTurnDone(h, ok)
  \/ \E h \in 1..MaxFragments : LegacyStoreTranscriptDone(h)

SpecConfidence == InitLegacy /\ [][NextConfidence]_vars

SpecSegment == InitReply /\ [][NextSegment]_vars

SpecLimiter == InitLimiter /\ [][NextLimiter]_vars

SpecReply == InitReply /\ [][NextReply]_vars

\* the transcript handlers of a call under the clock, up to the end-of-thought test,
\* with the arrival time of every message observed
NextPause ==
  \/ \E t \in TimeGrid : Tick(t)
  \/ \E text \in FragmentTexts, is_final \in BOOLEAN :
       /\ DeepgramMessage(text, is_final)
       /\ arrivals' = Append(arrivals, now)
       /\ UNCHANGED <<updates, indexVars, lifeVars, resultVars>>
  \/ \E h \in 1..MaxFragments : SaveUserDone(h)

SpecPause == InitReply /\ [][NextPause]_vars

\* ------------------------------------------- the history of a call, by itself
MaxUpdates == 11

\* the messages handed to updateContext and to add
HistoryMessages ==
  {[role |-> "user", content |-> Frag_I_need],
   [role |-> "assistant", content |-> Reply_sure]}

\* one history update of the call, in part_001 (updateContext) and in index.js (add)
HistoryUpdate(message) ==
  /\ Len(updates) < MaxUpdates
  /\ updates' = Append(updates, message)
  /\ contexts' = updateContext(contexts, message)
  /\ ctxMessages' = contextAdd(ctxMessages, message.role, message.content)
  /\ UNCHANGED <<audioVars, connVars, reconnectVars, teardownVars, registryVars, arrivals,
                 lifeVars, resultVars, now, requestTimestamps, metrics, handlers, plivoOut, speakListeners, endPc,
                 fragments, appended, turns, genCalls, otherCalls>>

NextHistory == \E message \in HistoryMessages : HistoryUpdate(message)

SpecHistory == InitReply /\ [][NextHistory]_vars

\* ------------------------------------------- part_003: transcript delivery
MaxResults == 2

\* the sockets that carry the 'message' listener of /listen: deepgramWs.on('message')
\* runs once, on the socket the first connectToDeepgram resolved with
MessageListeners3 == IF listening THEN {attempts[1].value} ELSE {}

\* an open socket emits a transcript message: every 'message' listener of that
\* socket is called with it. current: the socket is the one `deepgramWs` names.
Deepgram3Message(i) ==
  /\ i \in 1..Len(attempts) /\ attempts[i].readyState = "OPEN"
  /\ Len(results) < MaxResults
  /\ results' = Append(results, [socket |-> i, current |-> (i = deepgramWs),
                                 handled |-> Cardinality(MessageListeners3 \cap {i})])
  /\ UNCHANGED <<audioVars, connVars, replyVars, reconnectVars, teardownVars, registryVars,
                 historyVars, indexVars, lifeVars>>

\* the call after its initial connect, with the transcripts its sockets emit;
\* sockets open, break and close, no connection timeout or retry timer fires
NextResults ==
  \/ \E i \in 1..MaxAttempts : AttemptOpen(i)
  \/ \E i \in 1..MaxAttempts : AttemptError(i)
  \/ \E i \in 1..MaxAttempts : AttemptClose(i)
  \/ PlivoClosed3
  \/ PlivoMedia3
  \/ \E i \in 1..MaxAttempts : Deepgram3Message(i)

SpecResults == InitReconnect /\ [][NextResults]_vars

\* the same pipeline under the scheduling the code provides: a timer that was set
\* fires (the 5 s timeout of sendTTSResponse, the 1 s pause of the retry loop).
\* Nothing bounds the answer of the generation service, of the store or of the
\* caller transport: fetch is node-fetch without a timeout or an abort signal.
SpecReplyLive ==
  /\ InitReply
  /\ [][NextReply]_vars
  /\ WF_vars(\E h \in 1..MaxFragments, rnd \in RandomIndexes : TtsTimeout(h, rnd))
  /\ WF_vars(\E h \in 1..MaxFragments, rnd \in RandomIndexes : BackoffDone(h, rnd))

\* ------------------------------------------- index.js: /listen and its socket
indexUnchanged == <<audioBuffer, drains, connVars, replyVars, sideVars>>

\* app.ws('/listen'): `await connectToDeepgram()` up to the await of
\* initializeDeepgramWebSocket, which makes the socket and arms no timer
IndexConnect ==
  /\ ~listening /\ sockets = <<>>
  /\ sockets' = <<"CONNECTING">>
  /\ pendingWs' = 1
  /\ UNCHANGED <<indexUnchanged, deepgramWs, onMessage, plivoWs, listening, cleanups,
                 received, sent>>

\* ws.on('open') resolves; connectToDeepgram assigns deepgramWs and attaches its
\* listeners, /listen attaches the handlers of plivoWs and sets the keepalive
IndexOpen(ws) ==
  /\ ws \in 1..Len(sockets) /\ sockets[ws] = "CONNECTING" /\ pendingWs = ws
  /\ sockets' = [sockets EXCEPT ![ws] = "OPEN"]
  /\ deepgramWs' = ws
  /\ onMessage' = onMessage \cup {ws}
  /\ pendingWs' = 0
  /\ listening' = TRUE
  /\ UNCHANGED <<indexUnchanged, plivoWs, cleanups, received, sent>>

\* ws.on('error') rejects; the catch of connectToDeepgram swallows it and /listen
\* goes on without a socket
IndexError(ws) ==
  /\ ws \in 1..Len(sockets) /\ sockets[ws] = "CONNECTING" /\ pendingWs = ws
  /\ sockets' = [sockets EXCEPT ![ws] = "CLOSED"]
  /\ pendingWs' = 0
  /\ listening' = TRUE
  /\ UNCHANGED <<indexUnchanged, deepgramWs, onMessage, plivoWs, cleanups, received, sent>>

\* ws.on('close') of an open or closing socket: nothing but a log line
IndexSocketClose(ws) ==
  /\ ws \in 1..Len(sockets) /\ sockets[ws] \in {"OPEN", "CLOSING"}
  /\ sockets' = [sockets EXCEPT ![ws] = "CLOSED"]
  /\ UNCHANGED <<indexUnchanged, deepgramWs, pendingWs, onMessage, plivoWs, listening,
                 cleanups, received, sent>>

\* plivoWs.on('message'), event 'media': send on an open socket (a send that
\* throws is caught), drop the frame otherwise
IndexMedia ==
  /\ listening /\ plivoWs = "OPEN" /\ Len(received) < MaxFrames
  /\ LET audioData == Len(received) + 1 IN
     /\ received' = Append(received, audioData)
     /\ IF IsOpen(deepgramWs)
        THEN \/ sent' = Append(sent, <<deepgramWs, audioData>>)
             \/ sent' = sent
        ELSE sent' = sent
  /\ UNCHANGED <<indexUnchanged, sockets, deepgramWs, pendingWs, onMessage, plivoWs,
                 listening, cleanups>>

\* the caller transport closes; once the handlers are attached plivoWs.on('close')
\* runs cleanup(): close the open socket, then the update of the `calls` row
IndexPlivoClose ==
  /\ plivoWs = "OPEN"
  /\ plivoWs' = "CLOSED"
  /\ IF listening
     THEN /\ cleanups' = cleanups + 1
          /\ sockets' = IF IsOpen(deepgramWs)
                        THEN [sockets EXCEPT ![deepgramWs] = "CLOSING"]
                        ELSE sockets
     ELSE UNCHANGED <<cleanups, sockets>>
  /\ UNCHANGED <<indexUnchanged, deepgramWs, pendingWs, onMessage, listening, received, sent>>

\* the message types of the voice agent that the 'message' listener tells apart
IndexMessageTypes == {"Welcome", "UserStartedSpeaking", "ConversationText"}

\* deepgramWs.on('message') with a JSON message: 'UserStartedSpeaking' sends
\* clearAudio to the caller transport, 'ConversationText' inserts a transcript
\* row (a failure is swallowed), every other type is only logged
IndexMessage(type) ==
  /\ deepgramWs \in onMessage /\ sockets[deepgramWs] \in {"OPEN", "CLOSING"}
  /\ Len(fragments) < MaxFragments
  /\ fragments' = Append(fragments, [type |-> type])
  /\ plivoOut' = IF type = "UserStartedSpeaking" /\ plivoWs = "OPEN"
                 THEN Append(plivoOut, [event |-> "clearAudio"])
                 ELSE plivoOut
  /\ UNCHANGED <<audioVars, connVars, sideVars, now, requestTimestamps, contexts, metrics,
                 handlers, speakListeners, endPc, appended, turns, genCalls, otherCalls>>

NextIndex ==
  \/ IndexConnect
  \/ \E type \in IndexMessageTypes : IndexMessage(type)
  \/ \E ws \in 1..MaxSockets : IndexOpen(ws)
  \/ \E ws \in 1..MaxSockets : IndexError(ws)
  \/ \E ws \in 1..MaxSockets : IndexSocketClose(ws)
  \/ IndexMedia
  \/ IndexPlivoClose

\* every call ends (the caller transport closes) and a socket that is closing
\* closes. The code arms no timer on the connect path, and nothing bounds the
\* time the service takes to open or refuse the socket.
SpecIndex ==
  /\ InitAudio
  /\ [][NextIndex]_vars
  /\ WF_vars(IndexPlivoClose)
  /\ WF_vars(\E ws \in DOMAIN sockets : sockets[ws] = "CLOSING" /\ IndexSocketClose(ws))

\* part_001 under its scheduling: the 5 s connectionTimeout, once armed, fires
SpecAudioLive ==
  /\ SpecAudio
  /\ WF_vars(\E ws \in 1..MaxSockets : ConnectionTimeout(ws))

\* ------------------------------------------- part_003: generateAIResponse
\* the completion call of part_003's generateAIResponse settles: a failure is
\* caught next to the call and replaced by a fallback line, and the function goes
\* on to updateMetrics, updateContext and the conversation_turns insert
FetchDone3(h, outcome, r) ==
  /\ h \in 1..Len(handlers) /\ handlers[h].pc = "fetch"
  /\ LET aiResponse == IF outcome = "ok" THEN Reply_sure ELSE FALLBACK_RESPONSES[r] IN
     /\ metrics' = updateMetrics(metrics, now - handlers[h].startTime)
     /\ contexts' = updateContext(contexts, [role |-> "assistant", content |-> aiResponse])
     /\ handlers' = [handlers EXCEPT ![h].pc = "storeTurn", ![h].fetch = outcome,
                                     ![h].aiResponse = aiResponse]
  /\ UNCHANGED <<audioAll, now, requestTimestamps, plivoOut, speakListeners, endPc,
                 fragments, appended, turns, genCalls, otherCalls>>

\* the utterances of a call handed to the generateAIResponse of part_003 (its
\* entry, up to the completion call, is that of part_001)
NextMetrics ==
  \/ \E t \in TimeGrid : Tick(t)
  \/ \E text \in {Frag_help_please, Frag_okay} :
       DeepgramMessage(text, TRUE) /\ UNCHANGED extraVars
  \/ \E h \in 1..MaxFragments : SaveUserDone(h)
  \/ \E h \in 1..MaxFragments, outcome \in {"ok", "fail"}, r \in RandomIndexes :
       FetchDone3(h, outcome, r)
  \/ \E h \in 1..MaxFragments : StoreTurnDone(h)

SpecMetrics == InitReply /\ [][NextMetrics]_vars

\* ------------------------------------------- part_001: the keepalive interval
MaxTicks == 4

\* a tick of keepAliveInterval, which runs from its setInterval at the end of
\* /listen until the clearInterval of cleanup: ping the caller transport if it
\* is open; nothing else is looked at
KeepAliveTick ==
  /\ listening /\ cleanups = 0
  /\ keepAlive.ticks < MaxTicks
  /\ keepAlive' = IF plivoWs = "OPEN"
                  THEN [keepAlive EXCEPT !.ticks = @ + 1, !.unanswered = @ + 1,
                                         !.pings = @ + 1, !.pending = @ + 1]
                  ELSE [keepAlive EXCEPT !.ticks = @ + 1, !.unanswered = @ + 1]
  /\ UNCHANGED <<audioVars, connVars, replyVars, reconnectVars, teardownVars, registryVars,
                 historyVars, indexVars, exited, resultVars>>

\* the caller transport answers a ping; /listen has no 'pong' listener
PlivoPong ==
  /\ plivoWs = "OPEN" /\ keepAlive.pending > 0
  /\ keepAlive' = [keepAlive EXCEPT !.pending = @ - 1, !.unanswered = 0]
  /\ UNCHANGED <<audioVars, connVars, replyVars, reconnectVars, teardownVars, registryVars,
                 historyVars, indexVars, exited, resultVars>>

\* a call on an open transcription socket under its keepalive
NextKeepAlive ==
  \/ KeepAliveTick
  \/ PlivoPong
  \/ PlivoMedia
  \/ PlivoClose
  \/ \E ok \in BOOLEAN : EndConversationStep(ok)

SpecKeepAlive == InitReply /\ [][NextKeepAlive]_vars

Init == InitReply

Next == NextReply

Spec == SpecReply

\* ------------------------------------------------------------- properties
\* the frames of a send history, in the order the service was given them
FramesOf(history) == [i \in 1..Len(history) |-> history[i][2]]

RECURSIVE Concat(_)
Concat(texts) == IF texts = <<>> THEN <<>> ELSE Head(texts) \o Concat(Tail(texts))

\* the texts appended to transcriptBuffer, each as `' ' + transcriptText`
AppendedText == Concat([i \in 1..Len(appended) |-> <<" ">> \o appended[i]])

\* the buffers the ended turns were cut from, in the order the turns ended
TurnsText == Concat([i \in 1..Len(turns) |-> turns[i].raw])

\* the handlers whose generateAIResponse call has not returned
Generating == {h \in 1..Len(handlers) : handlers[h].pc \in {"fetch", "storeTurn"}}

\* the speak events plivoWs.send was given by handler h
SpeakEvents(h) ==
  {i \in 1..Len(plivoOut) : plivoOut[i].handler = h /\ plivoOut[i].event = "speak"}

Calls(h, targets) == {i \in 1..Len(handlers[h].tts) : handlers[h].tts[i] \in targets}

\* C1: the frames the transcription service is given are the caller's frames in
\* arrival order, none of them twice, on the direct path, on the drain path and
\* when a direct send throws and the frame is buffered.
C1_FramesOnceInOrder ==
  \A i, j \in 1..Len(sent) : i < j => FramesOf(sent)[i] < FramesOf(sent)[j]

\* C2: a drain that connectToDeepgram runs to its end hands the socket the buffered
\* frames in the order they were added, each once and none dropped, and leaves
\* the buffer empty.
C2_DrainInOrderAndEmpties ==
  \A d \in 1..Len(drains) :
    /\ drains[d].at + Len(drains[d].buffered) <= Len(sent)
    /\ SubSeq(sent, drains[d].at + 1, drains[d].at + Len(drains[d].buffered))
         = OnSocket(drains[d].socket, drains[d].buffered)
    /\ drains[d].left = <<>>

\* a drain of two or more buffered frames has run
C2_DrainedSeveralFrames ==
  \E d \in 1..Len(drains) : Len(drains[d].buffered) >= 2

\* C3: the ended turns and the pending text partition the accepted fragments: the
\* buffers the turns were cut from, followed by transcriptBuffer, are the appended
\* fragments in order, so no fragment is in two utterances, none is lost between
\* clears and no text of an ended turn is left for the next; each utterance is
\* the cleaned buffer of its turn.
C3_TurnsPartitionFragments ==
  /\ TurnsText \o contexts.transcriptBuffer = AppendedText
  /\ \A i \in 1..Len(turns) : turns[i].utterance = cleanTranscript(turns[i].raw)

\* two turns have ended, each on its own fragment, and nothing is pending
C3_TwoTurnsEnded ==
  /\ Len(turns) = 2 /\ Len(appended) = 2
  /\ contexts.transcriptBuffer = <<>>
  /\ turns[1].handler # turns[2].handler

\* C4: at most one handler of a call is inside generateAIResponse at a time.
C4_SingleReplyInFlight == Cardinality(Generating) <= 1

\* C5: the generation calls made in any window of RATE_LIMIT_WINDOW ms number at
\* most MAX_REQUESTS_PER_WINDOW, and an utterance that asks the limiter when that
\* many calls lie in the window that ends now gets the fixed "too many requests"
\* line without a generation call.
C5_LimiterBoundsGeneration ==
  /\ \A s \in TimeGrid :
       Cardinality({i \in 1..Len(genCalls) :
                     genCalls[i] >= s /\ genCalls[i] <= s + RATE_LIMIT_WINDOW})
         <= MAX_REQUESTS_PER_WINDOW
  /\ \A h \in 1..Len(handlers) :
       (handlers[h].asked /\ handlers[h].inWindow >= MAX_REQUESTS_PER_WINDOW)
         => (~handlers[h].fetched /\ handlers[h].aiResponse = TooManyRequestsLine)

\* an utterance was refused by the limiter after another one was admitted, and
\* holds the fixed line for synthesis
C5_UtteranceRefused ==
  \E h \in 1..Len(handlers) :
    /\ handlers[h].asked /\ handlers[h].inWindow >= MAX_REQUESTS_PER_WINDOW
    /\ handlers[h].pc = "saveAgent" /\ handlers[h].aiResponse = TooManyRequestsLine
    /\ \E g \in 1..Len(handlers) : handlers[g].fetched

\* C6: one connect of /listen creates at most MAX_RECONNECT_ATTEMPTS sockets.
C6_AtMostThreeSockets == Len(attempts) <= MAX_RECONNECT_ATTEMPTS

\* C7: once the connect of /listen has failed and the caller transport is closed,
\* cleanup has run.
C7_FailedConnectCleansUp ==
  (attempts # <<>> /\ attempts[1].promise = "rejected" /\ plivoWs = "CLOSED")
    => cleanups >= 1

\* C8: for one utterance sendTTSResponse is called at most maxRetries times with
\* the reply and at most once with a fallback line.
C8_OneFallbackAtMost ==
  \A h \in 1..Len(handlers) :
    /\ Cardinality(Calls(h, {"reply"})) <= maxRetries
    /\ Cardinality(Calls(h, {"fallback", "fallback2"})) <= 1

\* C9: a handler that finished with its third sendTTSResponse of the reply, after
\* two that failed, has given the caller transport exactly one speak event.
C9_OneSpeakEvent ==
  \A h \in 1..Len(handlers) :
    (handlers[h].pc = "done" /\ handlers[h].tts = <<"reply", "reply", "reply">>)
      => Cardinality(SpeakEvents(h)) = 1

\* C10: a handler whose generation call failed has, when it ends, given the caller
\* transport a speak event that carries a line of FALLBACK_RESPONSES.
C10_FailureYieldsFallback ==
  \A h \in 1..Len(handlers) :
    (handlers[h].pc = "done" /\ handlers[h].completion = "fail")
      => \E i \in SpeakEvents(h) : plivoOut[i].payload.text \in Range(FALLBACK_RESPONSES)

\* C11: when the generation call of a handler has failed, conversationHistory
\* holds the fallback line the handler goes on with as an assistant message.
C11_FallbackRecordedInHistory ==
  \A h \in 1..Len(handlers) :
    (handlers[h].fetch = "fail" /\ contexts.live)
      => \E i \in 1..Len(contexts.messages) :
           contexts.messages[i] = [role |-> "assistant", content |-> handlers[h].aiResponse]

\* C14: at most one connectToDeepgram call started by the media handler is
\* pending at a time.
C14_OneConnectInProgress ==
  Cardinality({r \in reconnects : attempts[r].promise = "pending"}) <= 1

\* ------------------------------------- part_009: cleanup and endConversation
\* The part of the state a cleanup() call touches
TeardownState ==
  [deepgram |-> sockets[1], plivo |-> plivoWs, healthCheck |-> healthCheck,
   endRuns |-> endRuns, live |-> metrics.live, cleanups |-> cleanups]

\* cleanup(): clear the intervals, close the sockets that are open, and enter
\* endConversation up to its first await (no await when the metrics are gone)
cleanupLegacy(st) ==
  [st EXCEPT !.healthCheck = FALSE,
             !.deepgram = IF @ = "OPEN" THEN "CLOSING" ELSE @,
             !.plivo = IF @ = "OPEN" THEN "CLOSING" ELSE @,
             !.endRuns = Append(@, IF st.live THEN "update" ELSE "done"),
             !.cleanups = @ + 1]

SetTeardown(st) ==
  /\ sockets' = [sockets EXCEPT ![1] = st.deepgram]
  /\ plivoWs' = st.plivo
  /\ healthCheck' = st.healthCheck
  /\ endRuns' = st.endRuns
  /\ cleanups' = st.cleanups

teardownUnchanged ==
  <<deepgramWs, pendingWs, audioBuffer, onMessage, listening, received, sent, drains,
    connVars, reconnectVars, registryVars, extraVars, now, requestTimestamps, handlers,
    plivoOut,
    speakListeners, endPc, fragments, appended, turns, genCalls, otherCalls>>

\* deepgramWs.on('open')
LegacyDeepgramOpen ==
  /\ sockets[1] = "CONNECTING"
  /\ sockets' = [sockets EXCEPT ![1] = "OPEN"]
  /\ UNCHANGED <<teardownUnchanged, plivoWs, healthCheck, endRuns, cleanups, stored,
                 contexts, metrics>>

\* plivoWs.on('close') -> cleanup()
LegacyPlivoClosed ==
  /\ plivoWs \in {"OPEN", "CLOSING"}
  /\ SetTeardown(cleanupLegacy([TeardownState EXCEPT !.plivo = "CLOSED"]))
  /\ UNCHANGED <<teardownUnchanged, stored, contexts, metrics>>

\* deepgramWs.on('close') -> cleanup(): the socket failed to connect, was closed by
\* the service, or finished the close that cleanup() started
LegacyDeepgramClosed ==
  /\ sockets[1] \in {"CONNECTING", "OPEN", "CLOSING"}
  /\ SetTeardown(cleanupLegacy([TeardownState EXCEPT !.deepgram = "CLOSED"]))
  /\ UNCHANGED <<teardownUnchanged, stored, contexts, metrics>>

\* a tick of the healthCheck interval: one cleanup() per socket that is not OPEN
LegacyHealthCheck ==
  /\ healthCheck
  /\ plivoWs # "OPEN" \/ sockets[1] # "OPEN"
  /\ LET first == IF plivoWs # "OPEN" THEN cleanupLegacy(TeardownState) ELSE TeardownState
         second == IF sockets[1] # "OPEN" THEN cleanupLegacy(first) ELSE first IN
     SetTeardown(second)
  /\ UNCHANGED <<teardownUnchanged, stored, contexts, metrics>>

\* an awaited store write of endConversation call r settles: after the update of
\* `conversations` the insert into `call_metrics`, after the insert the deletes; a
\* write that throws is caught and nothing is deleted
LegacyEndConversationStep(r, ok) ==
  /\ r \in 1..Len(endRuns) /\ endRuns[r] \in {"update", "insert"}
  /\ IF ~ok
     THEN /\ endRuns' = [endRuns EXCEPT ![r] = "failed"]
          /\ UNCHANGED <<stored, contexts, metrics>>
     ELSE IF endRuns[r] = "update"
     THEN /\ endRuns' = [endRuns EXCEPT ![r] = "insert"]
          /\ UNCHANGED <<stored, contexts, metrics>>
     ELSE /\ endRuns' = [endRuns EXCEPT ![r] = "done"]
          /\ stored' = stored + 1
          /\ contexts' = [contexts EXCEPT !.live = FALSE]
          /\ metrics' = [metrics EXCEPT !.live = FALSE]
  /\ UNCHANGED <<teardownUnchanged, sockets, plivoWs, healthCheck, cleanups>>

\* the earlier /listen right after its set-up: the transcription socket is connecting
InitTeardown ==
  /\ sockets = <<"CONNECTING">>
  /\ deepgramWs = 1
  /\ pendingWs = 0
  /\ audioBuffer = AudioBufferNew
  /\ onMessage = {1}
  /\ plivoWs = "OPEN"
  /\ listening = TRUE
  /\ cleanups = 0
  /\ received = <<>>
  /\ sent = <<>>
  /\ drains = <<>>
  /\ attempts = <<>>
  /\ reconnectAttempt = 0
  /\ reconnects = {}
  /\ endRuns = <<>>
  /\ stored = 0
  /\ healthCheck = TRUE
  /\ sessions = <<>>
  /\ contextMap = {}
  /\ callsTable = {}
  /\ arrivals = <<>>
  /\ updates = <<>>
  /\ ctxMessages = <<[role |-> "system", content |-> SYSTEM_PROMPT]>>
  /\ keepAlive = KeepAliveNew
  /\ exited = FALSE
  /\ results = <<>>
  /\ requestTimestamps = <<>>
  /\ InitPipeline

NextTeardown ==
  \/ LegacyDeepgramOpen
  \/ LegacyPlivoClosed
  \/ LegacyDeepgramClosed
  \/ LegacyHealthCheck
  \/ \E r \in 1..Len(endRuns), ok \in BOOLEAN : LegacyEndConversationStep(r, ok)

SpecTeardown == InitTeardown /\ [][NextTeardown]_vars

\* ------------------------------------------- part_009: process shutdown
\* process.on('SIGTERM'): close() every client of the WebSocket server, then
\* process.exit(0) in the same tick (the module's own keepAliveInterval, an empty
\* callback, is cleared first). No event handler runs after exit.
Sigterm ==
  /\ ~exited
  /\ plivoWs' = IF plivoWs = "OPEN" THEN "CLOSING" ELSE plivoWs
  /\ exited' = TRUE
  /\ UNCHANGED <<sockets, deepgramWs, pendingWs, audioBuffer, onMessage, listening, cleanups,
                 received, sent, drains, connVars, replyVars, reconnectVars, teardownVars,
                 registryVars, historyVars, indexVars, keepAlive, resultVars>>

\* the earlier /listen in a process that may be told to stop
NextShutdown ==
  \/ ~exited /\ LegacyDeepgramOpen
  \/ ~exited /\ LegacyPlivoClosed
  \/ ~exited /\ LegacyDeepgramClosed
  \/ ~exited /\ LegacyHealthCheck
  \/ \E r \in 1..Len(endRuns), ok \in BOOLEAN : ~exited /\ LegacyEndConversationStep(r, ok)
  \/ Sigterm

SpecShutdown == InitTeardown /\ [][NextShutdown]_vars

\* C12: the final metrics of a call are inserted into call_metrics at most once.
C12_MetricsStoredOnce == stored <= 1

\* --------------------------- part_001: sessions by call id (ConversationManager)
MaxSessions == 3
MaxTurns == 2
CallIds == {"call-a", "call-b"}

\* contexts.get(callId) / metrics.get(callId): the entries of the two maps, kept
\* together; `owner` is the /listen connection whose initializeContext set them
ContextOf(callId) == {e \in contextMap : e.callId = callId}

\* initializeContext(callId) up to its await: contexts.set and metrics.set
initializeContext(owner, callId) ==
  (contextMap \ ContextOf(callId)) \cup {[callId |-> callId, owner |-> owner, messages |-> 1]}

registryUnchanged ==
  <<audioVars, connVars, replyVars, reconnectVars, teardownVars, extraVars>>

\* app.ws('/listen') with call_uuid = callId, up to the lookup of the `calls` row
ListenStart(callId) ==
  /\ Len(sessions) < MaxSessions
  /\ sessions' = Append(sessions, [callId |-> callId, pc |-> "lookup"])
  /\ UNCHANGED <<contextMap, callsTable, registryUnchanged>>

\* the lookup resolves: an existing row is accepted and initializeContext starts,
\* a missing row is inserted first
LookupDone(s) ==
  /\ s \in 1..Len(sessions) /\ sessions[s].pc = "lookup"
  /\ IF sessions[s].callId \in callsTable
     THEN /\ contextMap' = initializeContext(s, sessions[s].callId)
          /\ sessions' = [sessions EXCEPT ![s].pc = "init"]
     ELSE /\ sessions' = [sessions EXCEPT ![s].pc = "insert"]
          /\ UNCHANGED contextMap
  /\ UNCHANGED <<callsTable, registryUnchanged>>

\* the insert into `calls` resolves; on createError the transport is closed
InsertDone(s, ok) ==
  /\ s \in 1..Len(sessions) /\ sessions[s].pc = "insert"
  /\ IF ok
     THEN /\ callsTable' = callsTable \cup {sessions[s].callId}
          /\ contextMap' = initializeContext(s, sessions[s].callId)
          /\ sessions' = [sessions EXCEPT ![s].pc = "init"]
     ELSE /\ sessions' = [sessions EXCEPT ![s].pc = "rejected"]
          /\ UNCHANGED <<callsTable, contextMap>>
  /\ UNCHANGED registryUnchanged

\* the insert into `conversations` of initializeContext resolves; a throw is
\* rethrown to /listen, which closes the transport and returns
InitializeDone(s, ok) ==
  /\ s \in 1..Len(sessions) /\ sessions[s].pc = "init"
  /\ sessions' = [sessions EXCEPT ![s].pc = IF ok THEN "live" ELSE "rejected"]
  /\ UNCHANGED <<contextMap, callsTable, registryUnchanged>>

\* updateContext(callId, message) of a live session
SessionTurn(s) ==
  /\ s \in 1..Len(sessions) /\ sessions[s].pc = "live"
  /\ \E e \in ContextOf(sessions[s].callId) :
       /\ e.messages <= MaxTurns
       /\ contextMap' = (contextMap \ {e}) \cup {[e EXCEPT !.messages = @ + 1]}
  /\ UNCHANGED <<sessions, callsTable, registryUnchanged>>

\* plivoWs.on('close') -> cleanup() -> endConversation, up to its awaits: with
\* metrics for the id it starts the two store writes ("ending"), without them
\* it goes straight to the deletes, which find nothing
SessionClose(s) ==
  /\ s \in 1..Len(sessions) /\ sessions[s].pc = "live"
  /\ sessions' = IF ContextOf(sessions[s].callId) # {}
                 THEN [sessions EXCEPT ![s].pc = "ending"]
                 ELSE [sessions EXCEPT ![s].pc = "closed"]
  /\ UNCHANGED <<contextMap, callsTable, registryUnchanged>>

\* endConversation after its awaits: contexts.delete(callId), metrics.delete(callId);
\* a write that threw is caught and nothing is deleted
SessionEnded(s, ok) ==
  /\ s \in 1..Len(sessions) /\ sessions[s].pc = "ending"
  /\ contextMap' = IF ok THEN contextMap \ ContextOf(sessions[s].callId) ELSE contextMap
  /\ sessions' = [sessions EXCEPT ![s].pc = "closed"]
  /\ UNCHANGED <<callsTable, registryUnchanged>>

InitRegistry ==
  /\ InitAudio

NextRegistry ==
  \/ \E callId \in CallIds : ListenStart(callId)
  \/ \E s \in 1..MaxSessions : LookupDone(s)
  \/ \E s \in 1..MaxSessions, ok \in BOOLEAN : InsertDone(s, ok)
  \/ \E s \in 1..MaxSessions, ok \in BOOLEAN : InitializeDone(s, ok)
  \/ \E s \in 1..MaxSessions : SessionTurn(s)
  \/ \E s \in 1..MaxSessions : SessionClose(s)
  \/ \E s \in 1..MaxSessions, ok \in BOOLEAN : SessionEnded(s, ok)

SpecRegistry == InitRegistry /\ [][NextRegistry]_vars

\* C13: at most one session owns a call id at a time (a second start for a
\* registered id is refused), and every live session still has its own context.
C13_OneSessionPerCallId ==
  \A s \in 1..Len(sessions) :
    sessions[s].pc = "live"
      => /\ \A t \in 1..Len(sessions) :
              (t # s /\ sessions[t].callId = sessions[s].callId)
                => sessions[t].pc \notin {"init", "live"}
         /\ \E e \in ContextOf(sessions[s].callId) : e.owner = s

\* C15: the audio buffer is empty whenever the transcription link is open and no
\* connect is in progress.
C15_BufferEmptyWhileOpen ==
  (IsOpen(deepgramWs) /\ ~audioBuffer.isConnecting) => audioBuffer.buffer = <<>>

\* the fragment handled by the i-th run of the earlier handler is only a filler word
FillerOnly(i) == trim(toLowerCase(fragments[i].text)) \in fillerWords

\* the texts of the fragments that are not filler words, each as `' ' + spokenText`
SpeechText ==
  Concat([i \in 1..Len(fragments) |->
            IF FillerOnly(i) THEN <<>> ELSE <<" ">> \o fragments[i].text])

\* C16: a fragment that is only a filler word never ends a turn, starts no reply,
\* and its text is in no utterance and not in the pending text: the ended turns and
\* the pending text are made of the other fragments alone.
C16_FillerNeverInUtterance ==
  /\ \A i \in 1..Len(turns) : ~FillerOnly(turns[i].handler)
  /\ \A h \in 1..Len(handlers) :
       FillerOnly(h) => /\ handlers[h].utterance = <<>>
                        /\ handlers[h].completion = "none"
                        /\ ~handlers[h].spoken
  /\ TurnsText \o contexts.transcriptBuffer = SpeechText
  /\ \A i \in 1..Len(turns) : turns[i].utterance = cleanTranscript(turns[i].raw)

\* a filler word arrived after a pause long enough to end a turn, and the text
\* before it is still pending
C16_FillerAfterPause ==
  /\ Len(fragments) = 2 /\ FillerOnly(2) /\ ~FillerOnly(1)
  /\ fragments[2].sinceLast > END_OF_THOUGHT_PAUSE
  /\ contexts.transcriptBuffer = <<" ">> \o fragments[1].text

\* C17: handling a fragment with is_final = false never ends a turn: every turn
\* ended while handling a final fragment.
C17_InterimNeverEndsTurn ==
  \A i \in 1..Len(turns) : fragments[turns[i].handler].is_final

\* the fragment that handler h of the later variant was started for: the h-th
\* final one
FragmentOf(h) ==
  CHOOSE i \in 1..Len(fragments) :
    /\ fragments[i].is_final
    /\ Cardinality({j \in 1..i : fragments[j].is_final}) = h

\* handler h ended a turn
EndedTurn(h) == \E i \in 1..Len(turns) : turns[i].handler = h

\* C18: on every final fragment that follows another fragment, the turn ends if
\* and only if more than 1500 ms passed since the previous fragment, or the text
\* ends in '.', '!' or '?', or it ends with a closing phrase.
C18_TurnEndsIffRule ==
  \A h \in 1..Len(handlers) :
    (handlers[h].pc # "saveUser" /\ FragmentOf(h) > 1)
      => (EndedTurn(h) <=>
            isEndOfThought(handlers[h].text,
                           arrivals[FragmentOf(h)] - arrivals[FragmentOf(h) - 1]))

\* C19: every fragment that arrived, interim or final, has been appended to the
\* transcript buffer in arrival order once its handler is past the append.
C19_AllFragmentsAppendedInOrder ==
  (contexts.live /\ \A h \in 1..Len(handlers) : handlers[h].pc # "saveUser")
    => appended = [i \in 1..Len(fragments) |-> fragments[i].text]

\* the utterance has fewer than two words or fewer than five characters
BelowMinimumQuality(utterance) ==
  WhiteSpaceRuns(utterance) + 1 < MIN_WORDS \/ Len(utterance) < MIN_LENGTH

\* the turns of the earlier handler whose utterance failed the quality check
DiscardedTurns == {i \in 1..Len(turns) : BelowMinimumQuality(turns[i].utterance)}

\* a run of the earlier handler ends a turn whose utterance fails the check, and
\* leaves the pending text empty and the history, the outgoing events and the
\* limiter as they were
DiscardStep ==
  (Len(turns') = Len(turns) + 1 /\ BelowMinimumQuality(turns'[Len(turns')].utterance))
    => /\ contexts'.transcriptBuffer = <<>>
       /\ contexts'.messages = contexts.messages
       /\ plivoOut' = plivoOut
       /\ requestTimestamps' = requestTimestamps
       /\ genCalls' = genCalls

\* C20: when a turn ends with an utterance that fails the minimum-quality check,
\* the pending text is cleared and the utterance never reaches the reply pipeline:
\* no completion call, no reply, no speak event, no entry in the history, no
\* change to the limiter.
C20_LowQualityDiscarded ==
  /\ [][DiscardStep]_vars
  /\ [](\A i \in DiscardedTurns :
          LET h == turns[i].handler IN
          /\ handlers[h].pc \in {"storeTranscript", "done"}
          /\ handlers[h].completion = "none"
          /\ handlers[h].aiResponse = <<>>
          /\ ~handlers[h].spoken
          /\ SpeakEvents(h) = {}
          /\ \A m \in 1..Len(contexts.messages) :
               contexts.messages[m] # [role |-> "user", content |-> turns[i].utterance])

\* a turn ended with a one-word utterance, its handler has returned and nothing
\* is pending
C20_ShortUtteranceDiscarded ==
  \E i \in DiscardedTurns :
    /\ turns[i].utterance # <<>>
    /\ handlers[turns[i].handler].pc = "done"
    /\ contexts.transcriptBuffer = <<>>

\* C21: a fragment with a confidence below 0.7 is not appended to the pending
\* text and ends no turn.
C21_LowConfidenceDiscarded ==
  /\ \A i \in 1..Len(turns) : fragments[turns[i].handler].confidence >= 70
  /\ Len(appended) =
       Cardinality({i \in 1..Len(fragments) :
                      ~FillerOnly(i) /\ fragments[i].confidence >= 70})

\* a run of the earlier handler for a fragment that is only a filler word leaves
\* the pending text and lastProcessedTime as they were
FillerStep ==
  (/\ Len(fragments') = Len(fragments) + 1
   /\ trim(toLowerCase(fragments'[Len(fragments')].text)) \in fillerWords)
    => /\ contexts'.transcriptBuffer = contexts.transcriptBuffer
       /\ contexts'.lastProcessedTime = contexts.lastProcessedTime

\* C22: a filler-only fragment changes neither the pending text nor the time of
\* the last fragment, so the next pause is measured from the last non-filler one.
C22_FillerLeavesStateUnchanged == [][FillerStep]_vars

\* the most recent n messages handed to the history, in the order they were handed
RecentUpdates(n) ==
  SubSeq(updates, IF Len(updates) > n THEN Len(updates) - n + 1 ELSE 1, Len(updates))

\* a history of at most 10 entries: the system message, then the most recent 9
BoundedHistory(messages) ==
  /\ Len(messages) <= 10
  /\ messages[1] = [role |-> "system", content |-> SYSTEM_PROMPT]
  /\ Tail(messages) = RecentUpdates(9)

\* C23: after any sequence of updates the history of a call holds at most 10
\* entries, the first is the system message and the rest are the most recent 9
\* messages in the order they were appended, in updateContext and in add alike.
C23_HistoryBounded ==
  /\ BoundedHistory(contexts.messages)
  /\ BoundedHistory(ctxMessages)

\* an eleventh message was appended and the oldest one after the system message
\* dropped
C23_HistoryTruncated ==
  /\ Len(updates) = 11
  /\ Len(contexts.messages) = 10 /\ Len(ctxMessages) = 10
  /\ updates[1] # updates[2]
  /\ contexts.messages[2] = updates[3]

\* C24: the reply to utterance n is recorded (and handed to synthesis) before the
\* reply to utterance n+1: no later turn has its reply while an earlier turn of
\* the call is still waiting for its generation call.
C24_RepliesInUtteranceOrder ==
  \A i, j \in 1..Len(turns) :
    (i < j /\ handlers[turns[i].handler].pc = "fetch")
      => handlers[turns[j].handler].fetch = "none"

\* once the caller transport is no longer open no handler calls sendTTSResponse
\* and nothing is given to plivoWs.send
QuietAfterClose ==
  plivoWs # "OPEN"
    => /\ plivoOut' = plivoOut
       /\ \A h \in 1..Len(handlers) : handlers'[h].tts = handlers[h].tts

\* C25: after the caller transport has closed no speak event is sent and no retry
\* or fallback send is started.
C25_NoSendAfterClose == [][QuietAfterClose]_vars

\* C26: once cleanup has run on the close of the caller transport, no
\* transcription socket of the call is open.
C26_NoOpenSocketAfterCleanup ==
  cleanups >= 1 => \A ws \in 1..Len(sockets) : sockets[ws] # "OPEN"

\* a step on which the open transcription link of a listening call closes keeps
\* the caller transport open and runs no cleanup: the call is not closed before
\* a reconnect attempt has been made and has failed
ReconnectBeforeClose ==
  (/\ listening /\ plivoWs = "OPEN"
   /\ deepgramWs # 0 /\ attempts[deepgramWs].readyState = "OPEN"
   /\ attempts'[deepgramWs].readyState = "CLOSED")
    => /\ plivoWs' = "OPEN"
       /\ cleanups' = cleanups

\* C27: when the transcription link closes while the call is listening, the call
\* is closed only after a reconnect attempt has failed; the close of the link
\* itself does not close the call.
C27_ClosedOnlyAfterFailedReconnect == [][ReconnectBeforeClose]_vars

\* the positions at which a handler waits for a store write it has issued:
\* saveTranscript of the fragment, the conversation_turns insert, saveTranscript
\* of the reply and of the fallback
StoreWritePcs == {"saveUser", "storeTurn", "saveAgent", "saveFallback"}

\* once endConversation has finished and removed the context, a step changes no
\* history or metrics, issues no store write, starts no generation call or
\* sendTTSResponse and gives nothing to plivoWs.send
ClosedIsTerminal ==
  (endPc = "done" /\ ~contexts.live)
    => /\ contexts' = contexts /\ metrics' = metrics
       /\ genCalls' = genCalls /\ plivoOut' = plivoOut
       /\ Len(handlers') = Len(handlers)
       /\ \A h \in 1..Len(handlers) :
            /\ handlers'[h].tts = handlers[h].tts
            /\ handlers'[h].pc \in StoreWritePcs => handlers'[h].pc = handlers[h].pc

\* C28: after the call has reached Closed no later event (a fragment, the
\* completion of a generation call in flight) changes its history or metrics,
\* writes to the store, starts generation or synthesis, or sends to the caller.
C28_NothingAfterClosed == [][ClosedIsTerminal]_vars

\* C29: when the caller transport has let two consecutive keepalive ticks pass
\* without a sign of life, the call is closing: its transport is no longer open.
C29_SilentTransportCloses == keepAlive.unanswered >= 2 => plivoWs # "OPEN"

\* C30: after the shutdown handler has run, the call's caller transport is no
\* longer open and its teardown has run: cleanup was called and endConversation
\* was entered. (Nothing runs after process.exit, so what has not happened by
\* then never happens.)
C30_ShutdownTearsDown == exited => (plivoWs # "OPEN" /\ cleanups >= 1 /\ endRuns # <<>>)

\* a connection that waits for the conversation-start insert of initializeContext
\* stays accepted whatever the outcome of that write
StartWriteKeepsSession ==
  \A s \in 1..Len(sessions) :
    sessions[s].pc = "init" => sessions'[s].pc \in {"init", "live"}

\* C31: a failed best-effort store write (here the conversation-start insert) is
\* only logged; the session stays open.
C31_StoreFailureOnlyLogged == [][StartWriteKeepsSession]_vars

\* C32: every transcript message emitted by the call's current transcription
\* socket, a socket set by a reconnect included, was handed to the result
\* handler exactly once.
C32_CurrentFragmentsHandledOnce ==
  \A r \in 1..Len(results) : results[r].current => results[r].handled = 1

\* C33: no connection has had its caller transport closed by /listen because a
\* write to the store failed (the only way a session becomes "rejected").
C33_PersistenceNeverCloses ==
  \A s \in 1..Len(sessions) : sessions[s].pc # "rejected"

\* C34: a second removal of a call id performs no store write: no two
\* endConversation runs of one id have their writes in flight together.
C34_SecondRemovalWritesNothing ==
  \A s, t \in 1..Len(sessions) :
    (s # t /\ sessions[s].callId = sessions[t].callId)
      => ~(sessions[s].pc = "ending" /\ sessions[t].pc = "ending")

\* C35: a handler that has started the reply pipeline for an utterance (its
\* generation call is in flight) eventually ends.
C35_ReplyPipelineCompletes ==
  \A h \in 1..MaxFragments :
    (Len(handlers) >= h /\ handlers[h].pc = "fetch")
      ~> (Len(handlers) >= h /\ handlers[h].pc = "done")

\* C36: a connect attempt that is pending eventually settles (the socket opened,
\* or the attempt was given up as failed).
C36_ConnectSettles == (pendingWs # 0) ~> (pendingWs = 0)

\* C37: the turn count equals the number of response-time samples and the number
\* of generation calls of the call that succeeded.
C37_TurnCountIsSuccessfulGenerations ==
  /\ metrics.turnCount = Len(metrics.responseTimes)
  /\ metrics.turnCount = Cardinality({h \in 1..Len(handlers) : handlers[h].fetch = "ok"})

\* C38: at most one transcription socket of the call is open with the
\* transcript handler attached.
C38_OneLiveHandlerSocket ==
  Cardinality({ws \in onMessage : sockets[ws] = "OPEN"}) <= 1

\* C39: once the handlers of all final fragments are past the append, the texts
\* appended to the transcript buffer are those of the final fragments in the
\* order the fragments arrived.
C39_FinalFragmentsInArrivalOrder ==
  (contexts.live /\ \A h \in 1..Len(handlers) : handlers[h].pc # "saveUser")
    => appended = [h \in 1..Len(handlers) |-> handlers[h].text]

\* the handlers whose request the limiter turned away
Rejected(hs) == {h \in 1..Len(hs) : hs[h].asked /\ ~hs[h].fetched}

\* a step on which the limiter turns a request away only evicts the expired
\* timestamps: no timestamp is added, the history and the metrics stay as they are
RejectionStep ==
  Rejected(handlers') # Rejected(handlers)
    => /\ requestTimestamps' = Evict(requestTimestamps, now)
       /\ Len(requestTimestamps') <= Len(requestTimestamps)
       /\ contexts'.messages = contexts.messages
       /\ metrics' = metrics
       /\ genCalls' = genCalls

\* C40: a request rejected by the rate limiter adds no timestamp to the limiter,
\* appends nothing to the conversation history and records no metric.
C40_RejectionChangesNothing == [][RejectionStep]_vars

\* C40 witness: a handler's request was turned away while the window was full
C40_RequestRejected ==
  /\ Rejected(handlers) # {}
  /\ Len(requestTimestamps) = MAX_REQUESTS_PER_WINDOW

=============================================================================
